---------------------------- MODULE Spec2Model ----------------------------
(***************************************************************************)
(* A model of the carrom physics engine (lib/physics.ts), the geometry     *)
(* kernel (lib/geometry.ts) and the shot planner (lib/carrom-ai.ts).       *)
(*                                                                         *)
(* Numbers.  The program computes in IEEE doubles; the model computes in   *)
(* fixed point with round-to-nearest:                                      *)
(*   lengths, velocities, masses   in 1/1000 of a unit      (Milli)        *)
(*   friction, restitution, drag   in 1/1000                (Milli)        *)
(*   time steps                    in milliseconds                         *)
(*   angles                        in 1/1000 of a degree, so that          *)
(*                                 Math.PI is exactly 180000               *)
(*   probabilities                 in 1/10000               (ProbOne)      *)
(*   unit vectors                  in 1/1000                               *)
(* Objects.  Point/Vector objects live in a heap `pts` and are named by    *)
(* their address, so that the aliasing the JavaScript code creates (a      *)
(* shallow copy shares position and velocity objects) is part of the       *)
(* model.                                                                  *)
(***************************************************************************)
EXTENDS Integers, Sequences, FiniteSets, TLC

\* ---------------------------------------------------------------- numbers

Milli == 10^3
ProbOne == 10^4
PI == 180 * Milli

Abs(a) == IF a < 0 THEN -a ELSE a
Max(a, b) == IF a >= b THEN a ELSE b
Min(a, b) == IF a <= b THEN a ELSE b

\* a / b rounded to the nearest integer (b > 0), halves away from zero
Div(a, b) == IF a >= 0 THEN (2 * a + b) \div (2 * b) ELSE -((2 * (-a) + b) \div (2 * b))

\* Math.ceil(a / b) for a >= 0, b > 0
Ceil(a, b) == (a + b - 1) \div b

RECURSIVE SqrtIter(_, _)
SqrtIter(n, r) ==
  LET q == (r + n \div r) \div 2
  IN  IF q >= r THEN r ELSE SqrtIter(n, q)

\* Math.sqrt on a non-negative integer: the integer square root
Sqrt(n) == IF n <= 0 THEN 0 ELSE IF n < 4 THEN 1 ELSE SqrtIter(n, n \div 2)

\* sqrt(a*a + b*b) with the relative precision the 31-bit integers allow:
\* large arguments are scaled down before squaring and the root scaled back
Hypot(a, b) ==
  LET m == Max(Abs(a), Abs(b))
      k == IF m <= 30000 THEN 1 ELSE (m \div 30000) + 1
  IN  IF k = 1 THEN Sqrt(a * a + b * b)
      ELSE k * Sqrt(Div(a, k) * Div(a, k) + Div(b, k) * Div(b, k))

\* ------------------------------------------------- trigonometry (CORDIC)

\* atan(2^-i) in 1/1000000 degree, i = 0 .. 17
AtanTable ==
  << 45000000, 26565051, 14036243, 7125016, 3576334, 1789911, 895174, 447614,
     223811, 111906, 55953, 27976, 13988, 6994, 3497, 1749, 874, 437 >>

Pow2(i) == 2 ^ i

RECURSIVE CordicVec(_, _, _, _)
\* vectoring mode: rotates (x, y), x > 0, onto the x axis, accumulating the angle
CordicVec(x, y, z, i) ==
  IF i > Len(AtanTable) \/ y = 0 THEN z
  ELSE IF y > 0
       THEN CordicVec(x + y \div Pow2(i - 1), y - x \div Pow2(i - 1), z + AtanTable[i], i + 1)
       ELSE CordicVec(x - y \div Pow2(i - 1), y + x \div Pow2(i - 1), z - AtanTable[i], i + 1)

\* Math.atan2(y, x) in 1/1000 degree, in (-180000, 180000]
Atan2(y, x) ==
  IF x = 0 /\ y = 0 THEN 0
  ELSE IF x = 0 THEN (IF y > 0 THEN 90000 ELSE -90000)
  ELSE IF y = 0 THEN (IF x > 0 THEN 0 ELSE PI)
  ELSE LET m == Max(Abs(x), Abs(y))
           f == Max(1, 200000000 \div m)
           ax == Abs(x) * f
           ay == y * f
           a == Div(CordicVec(ax, ay, 0, 1), 1000)
       IN  IF x > 0 THEN a
           ELSE IF y > 0 THEN PI - a ELSE -PI - a

RECURSIVE CordicRot(_, _, _, _)
\* rotation mode: rotates (x, y) by the angle z (|z| <= 99.9 degrees)
CordicRot(x, y, z, i) ==
  IF i > Len(AtanTable) THEN <<x, y>>
  ELSE IF z >= 0
       THEN CordicRot(x - y \div Pow2(i - 1), y + x \div Pow2(i - 1), z - AtanTable[i], i + 1)
       ELSE CordicRot(x + y \div Pow2(i - 1), y - x \div Pow2(i - 1), z + AtanTable[i], i + 1)

\* 1/K of the CORDIC gain times 10^8
CordicUnit == 60725294

\* <<cos a, sin a>> in 1/1000, for a in 1/1000 degree, -360000 <= a <= 360000
CosSin(a) ==
  LET b == IF a > PI THEN a - 2 * PI ELSE IF a <= -PI THEN a + 2 * PI ELSE a
      flip == b > 90000 \/ b < -90000
      c == IF b > 90000 THEN b - PI ELSE IF b < -90000 THEN b + PI ELSE b
      r == CordicRot(CordicUnit, 0, c * 1000, 1)
      co == Div(r[1], 100000)
      si == Div(r[2], 100000)
  IN  IF flip THEN <<-co, -si>> ELSE <<co, si>>

\* -------------------------------------------------------------- geometry

\* IEEE not-a-number (0/0), as a value no computation of the model produces
NaN == -2 * 10^9
IsNaN(v) == v = NaN
PointNaN(p) == IsNaN(p.x) \/ IsNaN(p.y)

Pt(px, py) == [x |-> px, y |-> py]

\* distance(p1, p2): NaN when a coordinate is NaN
distance(p1, p2) ==
  IF PointNaN(p1) \/ PointNaN(p2) THEN NaN
  ELSE Hypot(p2.x - p1.x, p2.y - p1.y)

\* angle(from, to), in 1/1000 degree
angle(from, to) == Atan2(to.y - from.y, to.x - from.x)

RECURSIVE normalizeAngle(_)
\* normalizeAngle(a): the two while loops
normalizeAngle(a) ==
  IF a < 0 THEN normalizeAngle(a + 2 * PI)
  ELSE IF a >= 2 * PI THEN normalizeAngle(a - 2 * PI)
  ELSE a

\* ---------------------------------------------------------- physics engine

BoardWidth == 800
BoardHeight == 600
boardWidth == BoardWidth * Milli
boardHeight == BoardHeight * Milli
Margin == 20
margin == Margin * Milli
GravityX == 0
GravityY == 0
AirResistance == 999
SpeedEpsilon == 100

\* the Map `bodies`: entries in insertion order, each a key and the body
\* object stored under it (fields of PhysicsBody; position and velocity are
\* addresses of Point objects in the heap)
KeyIndex(reg, k) ==
  IF \E i \in 1..Len(reg) : reg[i].key = k
  THEN CHOOSE i \in 1..Len(reg) : reg[i].key = k
  ELSE 0

\* Map.set(key, value): replaces the value of an existing key in place,
\* appends a new key
MapSet(reg, k, b) ==
  LET i == KeyIndex(reg, k)
      e == [key |-> k, body |-> b]
  IN  IF i = 0 THEN Append(reg, e) ELSE [reg EXCEPT ![i] = e]

\* Map.delete(key)
MapDelete(reg, k) == SelectSeq(reg, LAMBDA e : e.key # k)

\* { ...body }: a new body object with the same field values, so the same
\* position and velocity objects
SpreadBody(b) == b

\* addBody(body): this.bodies.set(body.id, { ...body })
addBody(reg, b) == MapSet(reg, b.id, SpreadBody(b))

\* removeBody(id)
removeBody(reg, k) == MapDelete(reg, k)

\* updateBody(id, updates): Object.assign(body, updates) when the id is known;
\* `updates` is a function from some field names to their new values
updateBody(reg, k, updates) ==
  LET i == KeyIndex(reg, k)
  IN  IF i = 0 THEN reg
      ELSE [reg EXCEPT ![i].body =
              [f \in DOMAIN reg[i].body |->
                 IF f \in DOMAIN updates THEN updates[f] ELSE reg[i].body[f]]]

\* arithmetic that propagates NaN as IEEE arithmetic does
NAdd(a, b) == IF IsNaN(a) \/ IsNaN(b) THEN NaN ELSE a + b
NSub(a, b) == IF IsNaN(a) \/ IsNaN(b) THEN NaN ELSE a - b
\* a * b / c, c > 0
NMulDiv(a, b, c) == IF IsNaN(a) \/ IsNaN(b) THEN NaN ELSE Div(a * b, c)
\* comparisons with NaN are false
NLeq(a, b) == ~IsNaN(a) /\ ~IsNaN(b) /\ a <= b
NGeq(a, b) == ~IsNaN(a) /\ ~IsNaN(b) /\ a >= b
NLt(a, b) == ~IsNaN(a) /\ ~IsNaN(b) /\ a < b
NGt(a, b) == ~IsNaN(a) /\ ~IsNaN(b) /\ a > b

\* the speed of a velocity vector, NaN when a component is NaN
Speed(v) == IF PointNaN(v) THEN NaN ELSE Hypot(v.x, v.y)

\* the first loop body with the friction subtracted whatever its size
IntegrateUnclamped(h, b, dt) ==
  LET v0 == h[b.velocity]
      ax == NMulDiv(v0.x, AirResistance, Milli)
      ay == NMulDiv(v0.y, AirResistance, Milli)
      speed == Speed(Pt(ax, ay))
      frictionForce == Div(b.friction * dt, Milli)
      v1 == IF NGt(speed, SpeedEpsilon)
            THEN Pt(ax - Div(ax * frictionForce, speed), ay - Div(ay * frictionForce, speed))
            ELSE Pt(0, 0)
      p0 == h[b.position]
  IN  [h EXCEPT ![b.velocity] = v1,
                ![b.position] = Pt(NAdd(p0.x, NMulDiv(v1.x, dt, Milli)),
                                   NAdd(p0.y, NMulDiv(v1.y, dt, Milli)))]

\* step, first loop body: gravity, air resistance, friction, position update
\* of one non-static body; h is the heap of Point objects
IntegrateBody(h, b, dt) ==
  LET v0 == h[b.velocity]
      gx == NAdd(v0.x, Div(GravityX * dt, Milli))
      gy == NAdd(v0.y, Div(GravityY * dt, Milli))
      ax == NMulDiv(gx, AirResistance, Milli)
      ay == NMulDiv(gy, AirResistance, Milli)
      speed == Speed(Pt(ax, ay))
      frictionForce == Div(b.friction * dt, Milli)
      frictionX == Div(ax * frictionForce, speed)
      frictionY == Div(ay * frictionForce, speed)
      v1 == IF NGt(speed, SpeedEpsilon)
            THEN Pt(IF Abs(ax) > Abs(frictionX) THEN ax - frictionX ELSE 0,
                    IF Abs(ay) > Abs(frictionY) THEN ay - frictionY ELSE 0)
            ELSE Pt(0, 0)
      h1 == [h EXCEPT ![b.velocity] = v1]
      p0 == h1[b.position]
      v2 == h1[b.velocity]
      p1 == Pt(NAdd(p0.x, NMulDiv(v2.x, dt, Milli)), NAdd(p0.y, NMulDiv(v2.y, dt, Milli)))
  IN  [h1 EXCEPT ![b.position] = p1]

\* one wall test of handleWallCollisions on the x or the y coordinate: when
\* `hit`, the coordinate is clamped to `at` and the velocity component is
\* reflected and scaled by the restitution
WallX(h, b, hit, at) ==
  IF ~hit THEN h
  ELSE LET h1 == [h EXCEPT ![b.position].x = at]
       IN  [h1 EXCEPT ![b.velocity].x = NMulDiv(NSub(0, h1[b.velocity].x), b.restitution, Milli)]

WallY(h, b, hit, at) ==
  IF ~hit THEN h
  ELSE LET h1 == [h EXCEPT ![b.position].y = at]
       IN  [h1 EXCEPT ![b.velocity].y = NMulDiv(NSub(0, h1[b.velocity].y), b.restitution, Milli)]

\* handleWallCollisions(body): left, right, top, bottom, in this order
handleWallCollisions(h, b) ==
  LET hl == WallX(h, b, NLeq(NSub(h[b.position].x, b.radius), margin), margin + b.radius)
      hr == WallX(hl, b, NGeq(NAdd(hl[b.position].x, b.radius), boardWidth - margin),
                  boardWidth - margin - b.radius)
      ht == WallY(hr, b, NLeq(NSub(hr[b.position].y, b.radius), margin), margin + b.radius)
  IN  WallY(ht, b, NGeq(NAdd(ht[b.position].y, b.radius), boardHeight - margin),
            boardHeight - margin - b.radius)

NoCollision == [hit |-> FALSE]

\* checkCollision(bodyA, bodyB): the collision record, or null (NoCollision);
\* i and j are the places of the two bodies in the registry
checkCollision(h, reg, i, j) ==
  LET bodyA == reg[i].body
      bodyB == reg[j].body
      pa == h[bodyA.position]
      pb == h[bodyB.position]
      dist == distance(pa, pb)
      minDistance == bodyA.radius + bodyB.radius
      normal == IF dist = 0 THEN Pt(NaN, NaN)
                ELSE Pt(Div((pb.x - pa.x) * Milli, dist), Div((pb.y - pa.y) * Milli, dist))
  IN  IF NLt(dist, minDistance)
      THEN [hit |-> TRUE, a |-> i, b |-> j, idA |-> bodyA.id, idB |-> bodyB.id,
            normal |-> normal, penetration |-> minDistance - dist,
            point |-> Pt(NAdd(pa.x, NMulDiv(normal.x, bodyA.radius, Milli)),
                         NAdd(pa.y, NMulDiv(normal.y, bodyA.radius, Milli)))]
      ELSE NoCollision

\* the share of the penetration a body is moved by:
\* (otherMass / totalMass) * penetration * 0.5
Separation(otherMass, totalMass, penetration) ==
  IF totalMass = 0 THEN NaN ELSE Div(otherMass * penetration, 2 * totalMass)

\* the impulse scalar left undivided, as for two bodies of mass 2
ImpulseUndivided(impulse, massA, massB) == impulse

\* impulse / ((1 / massA) + (1 / massB)); a zero mass makes the divisor infinite
ImpulseOverInverseMass(impulse, massA, massB) ==
  IF IsNaN(impulse) THEN NaN
  ELSE IF massA = 0 \/ massB = 0 THEN 0
  ELSE Div(impulse * Milli, Div(Milli * Milli, massA) + Div(Milli * Milli, massB))

\* impulseComponent / (2 * mass): half the impulse reaches the body
OverMassHalved(c, mass) ==
  IF IsNaN(c) THEN NaN
  ELSE IF mass = 0 THEN NaN
  ELSE Div(c * Milli, 2 * mass)

\* impulseComponent / mass
OverMass(c, mass) ==
  IF IsNaN(c) THEN NaN
  ELSE IF mass = 0 THEN NaN
  ELSE Div(c * Milli, mass)

\* resolveCollision, first half: the two bodies are moved apart
SeparateBodies(h, reg, c) ==
  LET bodyA == reg[c.a].body
      bodyB == reg[c.b].body
      totalMass == bodyA.mass + bodyB.mass
      separationA == Separation(bodyB.mass, totalMass, c.penetration)
      separationB == Separation(bodyA.mass, totalMass, c.penetration)
      h1 == IF bodyA.isStatic THEN h
            ELSE [h EXCEPT ![bodyA.position] =
                    Pt(NSub(@.x, NMulDiv(c.normal.x, separationA, Milli)),
                       NSub(@.y, NMulDiv(c.normal.y, separationA, Milli)))]
  IN  IF bodyB.isStatic THEN h1
      ELSE [h1 EXCEPT ![bodyB.position] =
              Pt(NAdd(@.x, NMulDiv(c.normal.x, separationB, Milli)),
                 NAdd(@.y, NMulDiv(c.normal.y, separationB, Milli)))]

\* resolveCollision, second half: the impulse along the normal
ApplyImpulse(h, reg, c) ==
  LET bodyA == reg[c.a].body
      bodyB == reg[c.b].body
      va == h[bodyA.velocity]
      vb == h[bodyB.velocity]
      rvx == NSub(vb.x, va.x)
      rvy == NSub(vb.y, va.y)
      velocityAlongNormal ==
        IF IsNaN(rvx) \/ IsNaN(rvy) \/ PointNaN(c.normal) THEN NaN
        ELSE Div(rvx * c.normal.x + rvy * c.normal.y, Milli)
      restitution == Min(bodyA.restitution, bodyB.restitution)
      impulse == ImpulseOverInverseMass(
                   NMulDiv(NSub(0, velocityAlongNormal), Milli + restitution, Milli),
                   bodyA.mass, bodyB.mass)
      ix == NMulDiv(impulse, c.normal.x, Milli)
      iy == NMulDiv(impulse, c.normal.y, Milli)
      h1 == IF bodyA.isStatic THEN h
            ELSE [h EXCEPT ![bodyA.velocity] =
                    Pt(NSub(@.x, OverMass(ix, bodyA.mass)), NSub(@.y, OverMass(iy, bodyA.mass)))]
  IN  IF NGt(velocityAlongNormal, 0) THEN h
      ELSE IF bodyB.isStatic THEN h1
      ELSE [h1 EXCEPT ![bodyB.velocity] =
              Pt(NAdd(@.x, OverMass(ix, bodyB.mass)), NAdd(@.y, OverMass(iy, bodyB.mass)))]

\* resolveCollision(collision)
resolveCollision(h, reg, c) == ApplyImpulse(SeparateBodies(h, reg, c), reg, c)

\* TLC evaluates an operator's argument where the operator first reads it;
\* the loops of step read the heap at the head of every iteration, so that an
\* iteration is evaluated before the next one begins
Evaluated(h) == DOMAIN h = DOMAIN h

RECURSIVE IntegrateAll(_, _, _, _)
\* step, first loop: every non-static body, in the order of the Map
IntegrateAll(h, reg, i, dt) ==
  IF i > Len(reg) \/ ~Evaluated(h) THEN h
  ELSE IntegrateAll(IF reg[i].body.isStatic THEN h ELSE IntegrateBody(h, reg[i].body, dt),
                    reg, i + 1, dt)

RECURSIVE WallAll(_, _, _)
\* step, second loop
WallAll(h, reg, i) ==
  IF i > Len(reg) \/ ~Evaluated(h) THEN h
  ELSE WallAll(IF reg[i].body.isStatic THEN h ELSE handleWallCollisions(h, reg[i].body),
               reg, i + 1)

RECURSIVE PairRow(_, _, _, _)
\* step, third loop, the inner loop for bodyA = reg[i]: the pairs (i, j),
\* (i, j + 1), ...; st holds the heap and the collisions pushed so far
PairRow(st, reg, i, j) ==
  IF j > Len(reg) \/ ~Evaluated(st) THEN st
  ELSE LET c == checkCollision(st.heap, reg, i, j)
       IN  IF c.hit
           THEN PairRow([heap |-> resolveCollision(st.heap, reg, c),
                         collisions |-> Append(st.collisions, c)], reg, i, j + 1)
           ELSE PairRow(st, reg, i, j + 1)

RECURSIVE PairRows(_, _, _)
\* step, third loop, the outer loop from bodyA = reg[i] on
PairRows(st, reg, i) ==
  IF i > Len(reg) \/ ~Evaluated(st) THEN st
  ELSE PairRows(PairRow(st, reg, i, i + 1), reg, i + 1)

\* step, third loop: every pair i < j of the Map's order, from the pair
\* (i, j) on; returns the heap and the collisions pushed
PairLoop(h, reg, i, j, cols) ==
  PairRows(PairRow([heap |-> h, collisions |-> cols], reg, i, j), reg, i + 1)

\* step(deltaTime): the heap after the step and the collisions returned
step(h, reg, dt) == PairLoop(WallAll(IntegrateAll(h, reg, 1, dt), reg, 1), reg, 1, 2, <<>>)

\* stopAllBodies(): every registered body's velocity object is zeroed
RECURSIVE stopAllBodies(_, _, _)
stopAllBodies(h, reg, i) ==
  IF i > Len(reg) THEN h
  ELSE stopAllBodies([h EXCEPT ![reg[i].body.velocity] = Pt(0, 0)], reg, i + 1)

\* hasMovingBodies(): some non-static body is faster than the epsilon
hasMovingBodies(h, reg) ==
  \E i \in 1..Len(reg) :
    ~reg[i].body.isStatic /\ NGt(Speed(h[reg[i].body.velocity]), SpeedEpsilon)

\* ------------------------------------------------------ simulateTrajectory

TrajectoryFriction == 20
TrajectoryRestitution == 800
TrajectoryStopSpeed == 500

\* `let pos = startPos` in place of the spread: the same object, not a copy
AliasPoint(h, a) == [heap |-> h, addr |-> a]

\* { ...point }: a new Point object holding the same coordinates
SpreadPoint(h, a) == [heap |-> Append(h, h[a]), addr |-> Len(h) + 1]

\* simulateTrajectory, one wall test on the x coordinate of the local pos/vel
TrajWallX(h, pa, va, radius) ==
  LET px == h[pa].x
      low == NLeq(NSub(px, radius), margin)
      high == NGeq(NAdd(px, radius), boardWidth - margin)
  IN  IF ~(low \/ high) THEN h
      ELSE LET h1 == [h EXCEPT ![va].x = NMulDiv(NSub(0, @), TrajectoryRestitution, Milli)]
           IN  [h1 EXCEPT ![pa].x = IF NLeq(NSub(h1[pa].x, radius), margin)
                                    THEN margin + radius
                                    ELSE boardWidth - margin - radius]

TrajWallY(h, pa, va, radius) ==
  LET py == h[pa].y
      low == NLeq(NSub(py, radius), margin)
      high == NGeq(NAdd(py, radius), boardHeight - margin)
  IN  IF ~(low \/ high) THEN h
      ELSE LET h1 == [h EXCEPT ![va].y = NMulDiv(NSub(0, @), TrajectoryRestitution, Milli)]
           IN  [h1 EXCEPT ![pa].y = IF NLeq(NSub(h1[pa].y, radius), margin)
                                    THEN margin + radius
                                    ELSE boardHeight - margin - radius]

\* simulateTrajectory, the air resistance and friction statements on vel
TrajFriction(h, va, dt) ==
  LET ax == NMulDiv(h[va].x, AirResistance, Milli)
      ay == NMulDiv(h[va].y, AirResistance, Milli)
      speed == Speed(Pt(ax, ay))
      friction == Div(TrajectoryFriction * dt, Milli)
      frictionX == Div(ax * friction, speed)
      frictionY == Div(ay * friction, speed)
  IN  IF NGt(speed, SpeedEpsilon)
      THEN [moving |-> TRUE,
            heap |-> [h EXCEPT ![va] =
                        Pt(IF Abs(ax) > Abs(frictionX) THEN ax - frictionX ELSE 0,
                           IF Abs(ay) > Abs(frictionY) THEN ay - frictionY ELSE 0)]]
      ELSE [moving |-> FALSE, heap |-> [h EXCEPT ![va] = Pt(ax, ay)]]

\* the loop condition `i <= steps`, one iteration more than the code's
TrajContinueInclusive(i, steps) == i <= steps

\* simulateTrajectory, the loop condition `i < steps`
TrajContinue(i, steps) == i < steps

RECURSIVE TrajLoop(_, _, _, _, _, _, _, _)
\* simulateTrajectory, the for loop: pa and va are the addresses of the
\* locals pos and vel
TrajLoop(h, pa, va, radius, steps, dt, i, trajectory) ==
  IF ~TrajContinue(i, steps) THEN [heap |-> h, trajectory |-> trajectory]
  ELSE LET pushed == Append(trajectory, h[pa])
           f == TrajFriction(h, va, dt)
           h1 == f.heap
           h2 == [h1 EXCEPT ![pa] = Pt(NAdd(@.x, NMulDiv(h1[va].x, dt, Milli)),
                                       NAdd(@.y, NMulDiv(h1[va].y, dt, Milli)))]
           h3 == TrajWallX(h2, pa, va, radius)
           h4 == TrajWallY(h3, pa, va, radius)
           v == h4[va]
       IN  IF ~f.moving THEN [heap |-> h1, trajectory |-> pushed]
           ELSE IF NLt(Abs(v.x), TrajectoryStopSpeed) /\ NLt(Abs(v.y), TrajectoryStopSpeed)
                THEN [heap |-> h4, trajectory |-> pushed]
                ELSE TrajLoop(h4, pa, va, radius, steps, dt, i + 1, pushed)

\* simulateTrajectory(startPos, velocity, radius, steps, timeStep): startPos
\* and velocity are addresses of the caller's objects; returns the heap after
\* the call (with the two locals at its end) and the trajectory
simulateTrajectory(h, startPos, velocity, radius, steps, dt) ==
  LET p == SpreadPoint(h, startPos)
      v == SpreadPoint(p.heap, velocity)
  IN  TrajLoop(v.heap, p.addr, v.addr, radius, steps, dt, 0, <<>>)

\* ------------------------------------------------------------- isPathClear

PathStepSize == 2
DefaultBuffer == 2

\* the i-th sample point of the segment, for `steps` samples; t = i / steps
\* is NaN when steps = 0
CheckPoint(start, end, i, steps) ==
  IF steps = 0 THEN Pt(NaN, NaN)
  ELSE Pt(start.x + Div((end.x - start.x) * i, steps),
          start.y + Div((end.y - start.y) * i, steps))

\* distance(p1, p2) <= r, decided on the squares where they fit
DistanceLeq(p1, p2, r) ==
  IF PointNaN(p1) \/ PointNaN(p2) THEN FALSE
  ELSE LET dx == Abs(p2.x - p1.x)
           dy == Abs(p2.y - p1.y)
       IN  IF dx > r \/ dy > r THEN FALSE
           ELSE IF r <= 30 * Milli THEN dx * dx + dy * dy <= r * r
           ELSE Hypot(dx, dy) <= r

\* isPathClear(start, end, excludeIds, buffer) on point values
isPathClear(h, reg, start, end, excludeIds, buffer) ==
  LET pathLength == distance(start, end)
      steps == IF IsNaN(pathLength) THEN -1 ELSE Ceil(pathLength, PathStepSize * Milli)
  IN  \A i \in 0..steps :
        LET checkPoint == CheckPoint(start, end, i, steps)
        IN  \A k \in 1..Len(reg) :
              \/ reg[k].body.id \in excludeIds
              \/ ~DistanceLeq(checkPoint, h[reg[k].body.position],
                              reg[k].body.radius + buffer)

\* ----------------------------------------------------------------- CarromAI

PocketRadius == 25
PocketMargin == 30

\* the constructor's switch on the difficulty
AccuracyMultiplier(difficulty) ==
  CASE difficulty = "easy" -> 7000
    [] difficulty = "medium" -> 8500
    [] difficulty = "hard" -> 9500
    [] difficulty = "expert" -> ProbOne

\* this.pockets: top-left, top-right, bottom-left, bottom-right
Pockets ==
  LET m == PocketMargin * Milli
      pocket(px, py) == [position |-> Pt(px, py), radius |-> PocketRadius * Milli]
  IN  << pocket(m, m), pocket(boardWidth - m, m),
         pocket(m, boardHeight - m), pocket(boardWidth - m, boardHeight - m) >>

isCoinPocketed(h, coin) ==
  \E i \in 1..Len(Pockets) :
    NLeq(distance(h[coin.position], Pockets[i].position), Pockets[i].radius)

RECURSIVE LiveCoins(_, _, _)
\* coins.filter(coin => !this.isCoinPocketed(coin)), from index i
LiveCoins(h, coins, i) ==
  IF i > Len(coins) THEN <<>>
  ELSE (IF ~isCoinPocketed(h, coins[i]) THEN <<coins[i]>> ELSE <<>>)
       \o LiveCoins(h, coins, i + 1)

getTargetCoins(h, gameState) ==
  IF gameState.currentPlayer = "player"
  THEN LiveCoins(h, gameState.playerCoins, 1)
  ELSE LiveCoins(h, gameState.opponentCoins, 1)

RECURSIVE OtherCoins(_, _, _)
\* coins.filter(coin => coin.id !== id), from index i
OtherCoins(coins, id, i) ==
  IF i > Len(coins) THEN <<>>
  ELSE (IF coins[i].id # id THEN <<coins[i]>> ELSE <<>>) \o OtherCoins(coins, id, i + 1)

\* getStrikerStartArea: 13 points on the base line
getStrikerStartArea ==
  LET centerX == boardWidth \div 2
      startY == boardHeight - 40 * Milli
      range == 60 * Milli
  IN  [i \in 1..((2 * range) \div (10 * Milli) + 1) |->
         Pt(centerX - range + (i - 1) * 10 * Milli, startY)]

\* a board without walls, on which no bank shot exists
NoBoardWalls == <<>>

getBoardWalls ==
  << [name |-> "top", start |-> Pt(0, 0), end |-> Pt(boardWidth, 0)],
     [name |-> "right", start |-> Pt(boardWidth, 0), end |-> Pt(boardWidth, boardHeight)],
     [name |-> "bottom", start |-> Pt(boardWidth, boardHeight), end |-> Pt(0, boardHeight)],
     [name |-> "left", start |-> Pt(0, boardHeight), end |-> Pt(0, 0)] >>

\* calculateBankPoint: <<point>>, or <<>> for null
calculateBankPoint(coinPos, pocketPos, wall) ==
  LET midX == Div(coinPos.x + pocketPos.x, 2)
      midY == Div(coinPos.y + pocketPos.y, 2)
  IN  CASE wall.name = "top" -> <<Pt(midX, 20 * Milli)>>
        [] wall.name = "bottom" -> <<Pt(midX, boardHeight - 20 * Milli)>>
        [] wall.name = "left" -> <<Pt(20 * Milli, midY)>>
        [] wall.name = "right" -> <<Pt(boardWidth - 20 * Milli, midY)>>
        [] OTHER -> <<>>

calculateRequiredPower(shotDistance, pocketDistance) ==
  Min(100 * Milli, Max(20 * Milli, Div(shotDistance * 3, 10) + Div(pocketDistance, 10)))

powerToVelocity(power, a) ==
  LET speed == Div(power, 2)
      cs == CosSin(a)
  IN  Pt(Div(cs[1] * speed, Milli), Div(cs[2] * speed, Milli))

\* a * b on probabilities
ProbMul(a, b) == Div(a * b, ProbOne)

\* calculateShotProbability; pathClear is the value of
\* isPathClear(strikerPos, targetPos), which depends on neither the pocket
\* nor the shot type and is evaluated once for each striker position
calculateShotProbability(strikerPos, targetPos, pocketPos, shotType, pathClear, accuracy) ==
  LET shotDistance == distance(strikerPos, targetPos)
      distanceFactor == Max(ProbOne \div 10, ProbOne - Div(shotDistance, 40))
      optimalAngle == angle(targetPos, pocketPos)
      shotAngle == angle(strikerPos, targetPos)
      angleDiff == Abs(normalizeAngle(optimalAngle + PI) - normalizeAngle(shotAngle))
      angleFactor == Max(ProbOne \div 10, ProbOne - Div(angleDiff, 18))
      p1 == ProbMul(ProbMul(8000, distanceFactor), angleFactor)
      p2 == CASE shotType = "direct" -> p1
              [] shotType = "bank" -> ProbMul(p1, 7000)
              [] shotType = "carom" -> ProbMul(p1, 5000)
      p3 == IF ~pathClear THEN ProbMul(p2, 6000) ELSE p2
      p4 == ProbMul(p3, accuracy)
  IN  Max(500, Min(9500, p4))

\* a test of the plain difference only
WithinAngleNoWrap(angleDiff, maxAngleError) == angleDiff <= maxAngleError

\* the circular test of the direct and carom shots
WithinAngle(angleDiff, maxAngleError) ==
  angleDiff <= maxAngleError \/ (2 * PI - angleDiff) <= maxAngleError

RECURSIVE Concat(_, _, _)
\* shots.push(...more) over the sequences ss[lo], ..., ss[hi], in order
Concat(ss, lo, hi) ==
  IF lo > hi THEN <<>>
  ELSE IF lo = hi THEN ss[lo]
  ELSE LET mid == (lo + hi) \div 2
           left == Concat(ss, lo, mid)
           right == Concat(ss, mid + 1, hi)
       IN  left \o right

\* one pushed ShotOption.  Its trajectory field, the value of the
\* side-effect-free simulateTrajectory(strikerPos, velocity) on the planner's
\* own objects, and its id and description strings are not carried.
Shot(type, targetCoin, pocket, strikerPos, a, power, probability, risk, bank, via) ==
  [type |-> type, targetCoin |-> targetCoin.id, targetPocket |-> pocket,
   strikerPosition |-> strikerPos, angle |-> a, power |-> power,
   successProbability |-> probability, risk |-> risk,
   bankPoints |-> bank, intermediateCoins |-> via]

\* calculateDirectShots, the body of the loop for one striker position
DirectShot(h, targetCoin, pocket, strikerPos, pathClear, accuracy) ==
  LET targetPos == h[targetCoin.position]
      strikerToCoin == angle(strikerPos, targetPos)
      coinToPocket == angle(targetPos, pocket.position)
      angleDiff == Abs(normalizeAngle(strikerToCoin) - normalizeAngle(coinToPocket + PI))
      power == calculateRequiredPower(distance(strikerPos, targetPos),
                                      distance(targetPos, pocket.position))
      probability == calculateShotProbability(strikerPos, targetPos, pocket.position,
                                              "direct", pathClear, accuracy)
      risk == IF probability > 7000 THEN "low"
              ELSE IF probability > 4000 THEN "medium" ELSE "high"
  IN  IF WithinAngle(angleDiff, PI \div 6)
      THEN <<Shot("direct", targetCoin, pocket, strikerPos, strikerToCoin, power,
                  probability, risk, <<>>, <<>>)>>
      ELSE <<>>

calculateDirectShots(h, targetCoin, pocket, strikerArea, clear, accuracy) ==
  Concat([s \in 1..Len(strikerArea) |->
            DirectShot(h, targetCoin, pocket, strikerArea[s], clear[s], accuracy)],
         1, Len(strikerArea))

\* calculateBankShots, the body of the loops for one striker position and wall
BankShot(h, targetCoin, pocket, strikerPos, wall, pathClear, accuracy) ==
  LET targetPos == h[targetCoin.position]
      bank == calculateBankPoint(targetPos, pocket.position, wall)
      bankPoint == bank[1]
      strikerToBank == angle(strikerPos, bankPoint)
      shotDistance == distance(strikerPos, bankPoint) + distance(bankPoint, targetPos)
      power == calculateRequiredPower(shotDistance, distance(targetPos, pocket.position))
      probability == calculateShotProbability(strikerPos, targetPos, pocket.position,
                                              "bank", pathClear, accuracy)
  IN  IF bank # <<>>
      THEN <<Shot("bank", targetCoin, pocket, strikerPos, strikerToBank, power,
                  ProbMul(probability, 8000),
                  IF probability > 6000 THEN "medium" ELSE "high", bank, <<>>)>>
      ELSE <<>>

\* the striker positions outside, the walls inside
calculateBankShots(h, targetCoin, pocket, strikerArea, walls, clear, accuracy) ==
  Concat([k \in 1..(Len(strikerArea) * Len(walls)) |->
            LET s == ((k - 1) \div Len(walls)) + 1
                w == ((k - 1) % Len(walls)) + 1
            IN  BankShot(h, targetCoin, pocket, strikerArea[s], walls[w], clear[s], accuracy)],
         1, Len(strikerArea) * Len(walls))

\* calculateCaromShots, the body of the loops for one striker position and
\* intermediate coin
CaromShot(h, targetCoin, pocket, strikerPos, intermediateCoin, pathClear, accuracy) ==
  LET targetPos == h[targetCoin.position]
      intermediatePos == h[intermediateCoin.position]
      strikerToIntermediate == angle(strikerPos, intermediatePos)
      intermediateToTarget == angle(intermediatePos, targetPos)
      targetToPocket == angle(targetPos, pocket.position)
      angleDiff == Abs(normalizeAngle(intermediateToTarget) - normalizeAngle(targetToPocket + PI))
      totalDistance == distance(strikerPos, intermediatePos) + distance(intermediatePos, targetPos)
      power == calculateRequiredPower(totalDistance, distance(targetPos, pocket.position))
      probability == calculateShotProbability(strikerPos, targetPos, pocket.position,
                                              "carom", pathClear, accuracy)
  IN  IF WithinAngle(angleDiff, PI \div 4)
      THEN <<Shot("carom", targetCoin, pocket, strikerPos, strikerToIntermediate, power,
                  ProbMul(probability, 6000), "high", <<>>, <<intermediateCoin.id>>)>>
      ELSE <<>>

\* the striker positions outside, the intermediate coins inside
calculateCaromShots(h, gameState, targetCoin, pocket, strikerArea, clear, accuracy) ==
  LET allCoins == gameState.playerCoins \o gameState.opponentCoins
      intermediateCoins == LiveCoins(h, OtherCoins(allCoins, targetCoin.id, 1), 1)
      n == Len(intermediateCoins)
  IN  Concat([k \in 1..(Len(strikerArea) * n) |->
                LET s == ((k - 1) \div n) + 1
                    c == ((k - 1) % n) + 1
                IN  CaromShot(h, targetCoin, pocket, strikerArea[s], intermediateCoins[c],
                              clear[s], accuracy)],
             1, Len(strikerArea) * n)

\* isPathClear(strikerPos, targetPos) for every striker position
PathClearRow(h, reg, strikerArea, targetPos) ==
  [s \in 1..Len(strikerArea) |->
     isPathClear(h, reg, strikerArea[s], targetPos, {}, DefaultBuffer * Milli)] \o <<>>

\* analyzeShot, the body of the loop over this.pockets for one target coin
ShotsForPocket(h, gameState, targetCoin, pocket, strikerArea, clear, accuracy) ==
  calculateDirectShots(h, targetCoin, pocket, strikerArea, clear, accuracy)
  \o calculateBankShots(h, targetCoin, pocket, strikerArea, getBoardWalls, clear, accuracy)
  \o calculateCaromShots(h, gameState, targetCoin, pocket, strikerArea, clear, accuracy)

\* analyzeShot, the body of the loop over targetCoins
ShotsForTarget(h, reg, gameState, targetCoin, accuracy) ==
  LET strikerArea == getStrikerStartArea
      clear == PathClearRow(h, reg, strikerArea, h[targetCoin.position])
  IN  Concat([p \in 1..Len(Pockets) |->
                ShotsForPocket(h, gameState, targetCoin, Pockets[p], strikerArea, clear,
                               accuracy)],
             1, Len(Pockets))

\* the shots analyzeShot pushes, in the order it pushes them
CandidateShots(h, reg, gameState, accuracy) ==
  LET targetCoins == getTargetCoins(h, gameState)
  IN  Concat([t \in 1..Len(targetCoins) |->
                ShotsForTarget(h, reg, gameState, targetCoins[t], accuracy)],
             1, Len(targetCoins))

calculatePositionalValue(shot) == IF shot.successProbability > 5000 THEN 5 * 100 ELSE 0

\* calculateStrategicValue, in 1/100
calculateStrategicValue(shot, gameState) ==
  shot.successProbability
  + (IF /\ gameState.currentPlayer = "player"
        /\ \E i \in 1..Len(gameState.playerCoins) :
             gameState.playerCoins[i].id = shot.targetCoin
     THEN 20 * 100 ELSE 0)
  - (IF shot.risk = "high" THEN 10 * 100 ELSE 0)
  + calculatePositionalValue(shot)

\* a comparator that sorts by ascending probability
CompareShotsAscending(a, b, gameState) == a.successProbability - b.successProbability

\* rankShots, the comparator: negative when a sorts before b
CompareShots(a, b, gameState) ==
  LET probDiff == b.successProbability - a.successProbability
  IN  IF Abs(probDiff) > 1000 THEN probDiff
      ELSE calculateStrategicValue(b, gameState) - calculateStrategicValue(a, gameState)

RECURSIVE FirstIndex(_, _, _, _)
\* the index in lo..hi of the first shot that no shot of lo..hi sorts before
FirstIndex(shots, lo, hi, gameState) ==
  IF lo = hi THEN lo
  ELSE LET mid == (lo + hi) \div 2
           i == FirstIndex(shots, lo, mid, gameState)
           j == FirstIndex(shots, mid + 1, hi, gameState)
       IN  IF CompareShots(shots[i], shots[j], gameState) <= 0 THEN i ELSE j

RECURSIVE SortedPrefix(_, _, _)
\* the first count elements of shots.sort(comparator).  Array.sort is stable,
\* and the comparator orders the shots as their strategic values do (a
\* probability more than 0.1 higher outweighs the at most 10 points of the
\* risk and position terms), so the sorted array is found by selecting, again
\* and again, the first shot that none sorts before.
SortedPrefix(shots, count, gameState) ==
  IF count <= 0 \/ shots = <<>> THEN <<>>
  ELSE LET i == FirstIndex(shots, 1, Len(shots), gameState)
           rest == SubSeq(shots, 1, i - 1) \o SubSeq(shots, i + 1, Len(shots))
       IN  <<shots[i]>> \o SortedPrefix(rest, count - 1, gameState)

TopShots == 10

\* shots.sort(...).slice(0, 10)
rankShots(shots, gameState) == SortedPrefix(shots, TopShots, gameState)

analyzeShot(h, reg, gameState, accuracy) ==
  rankShots(CandidateShots(h, reg, gameState, accuracy), gameState)

NullShot == [type |-> "null"]

getBestShot(h, reg, gameState, accuracy) ==
  LET shots == analyzeShot(h, reg, gameState, accuracy)
  IN  IF Len(shots) > 0 THEN shots[1] ELSE NullShot

\* Array.slice(1, count + 1)
SliceFromSecond(shots, count) == SubSeq(shots, 2, Min(Len(shots), Max(count, 0) + 1))

\* Array.slice(0, count)
Slice(shots, count) == SubSeq(shots, 1, Min(Len(shots), Max(count, 0)))

getShotOptions(h, reg, gameState, accuracy, count) ==
  Slice(analyzeShot(h, reg, gameState, accuracy), count)

\* ------------------------------------------------------------------ state

VARIABLES
  pts,         \* the heap of Point/Vector objects: address -> [x, y]
  bodies,      \* PhysicsEngine.bodies: the Map, in insertion order
  collisions,  \* what the last step returned
  lastOp,      \* the last call made on the engine or the planner, with its arguments
  traj,        \* the last simulateTrajectory call: its arguments and what it returned
  ncalls,      \* the number of calls made so far
  difficulty,  \* CarromAI: the difficulty it was constructed with
  gameState,   \* the snapshot (GameState) the planner is handed
  shots,       \* what the last analyzeShot or getShotOptions returned
  bestShot,    \* what the last getBestShot returned
  game,        \* CarromGameManager.gameState
  hook         \* useCarromGame: its React state, refs, closures and pending callbacks

aiVars == <<difficulty, gameState, shots, bestShot, game, hook>>
vars == <<pts, bodies, collisions, lastOp, traj, ncalls, difficulty, gameState, shots, bestShot,
          game, hook>>

\* no game manager and no hook: the engine and the planner are used directly
NoGame == [phase |-> "none"]
NoHook == [mounted |-> FALSE]

\* bounds of the model
MaxBodies == 2
MaxCalls == 4

\* the addresses a registry refers to
RegistryRoots(reg) ==
  {reg[i].body.position : i \in 1..Len(reg)} \cup {reg[i].body.velocity : i \in 1..Len(reg)}

\* garbage collection: the objects at the addresses `used` keep their order
\* and are renumbered 1, 2, ...
NewAddr(used, a) == Cardinality({u \in used : u <= a})
CompactHeap(h, used) ==
  [i \in 1..Cardinality(used) |-> h[CHOOSE a \in used : NewAddr(used, a) = i]]
CompactRegistry(reg, used) ==
  [i \in 1..Len(reg) |->
     [reg[i] EXCEPT !.body.position = NewAddr(used, @),
                    !.body.velocity = NewAddr(used, @)]]

\* a body as its caller sees it: the field values with the Point objects read
BodyView(h, b) ==
  [id |-> b.id, position |-> h[b.position], velocity |-> h[b.velocity],
   radius |-> b.radius, mass |-> b.mass, friction |-> b.friction,
   restitution |-> b.restitution, isStatic |-> b.isStatic]
RegistryView(h, reg) ==
  [i \in 1..Len(reg) |-> [key |-> reg[i].key, body |-> BodyView(h, reg[i].body)]]

\* the body literals a caller passes to addBody: discs of radius 10, the
\* striker, a static disc and two malformed bodies (radius 0, mass 0)
Disc(id, px, py, vx, vy) ==
  [id |-> id, position |-> Pt(px, py), velocity |-> Pt(vx, vy), radius |-> 10000,
   mass |-> 1000, friction |-> 20, restitution |-> 800, isStatic |-> FALSE]
CallerBodies ==
  { Disc("a", 100000, 100000, 0, 0),
    Disc("b", 115000, 100000, 0, 0),
    Disc("a", 30000, 100000, 0, 0),
    Disc("b", 42000, 100000, -20000, 0),
    [id |-> "striker", position |-> Pt(400000, 550000), velocity |-> Pt(3000, 4000),
     radius |-> 12000, mass |-> 2000, friction |-> 25, restitution |-> 900,
     isStatic |-> FALSE],
    [Disc("b", 100000, 112000, 0, 0) EXCEPT !.isStatic = TRUE],
    [Disc("a", 100000, 100000, 0, 0) EXCEPT !.radius = 0],
    [Disc("b", 115000, 100000, 0, 0) EXCEPT !.mass = 0] }

\* the partial updates a caller passes to updateBody, as the hook does:
\* { position } and { position, velocity }
CallerUpdates ==
  { [position |-> Pt(30000, 100000)],
    [position |-> Pt(100000, 100000), velocity |-> Pt(-20000, 0)] }

\* the time steps of a step call, in milliseconds
DeltaTimes == {16, 1000}

Keys(reg) == {reg[i].key : i \in 1..Len(reg)}

NoTrajectory == [called |-> FALSE]
NoGameState == [currentPlayer |-> "none"]

Init ==
  /\ pts = <<>>
  /\ bodies = <<>>
  /\ collisions = <<>>
  /\ lastOp = [op |-> "new"]
  /\ traj = NoTrajectory
  /\ ncalls = 0
  /\ difficulty = "medium"
  /\ gameState = NoGameState
  /\ shots = <<>>
  /\ bestShot = NullShot
  /\ game = NoGame
  /\ hook = NoHook

\* the caller builds the body literal (allocating its position and velocity
\* objects) and calls addBody
AddBody(cb) ==
  /\ ncalls < MaxCalls
  /\ Len(bodies) < MaxBodies \/ cb.id \in Keys(bodies)
  /\ LET h1 == pts \o <<cb.position, cb.velocity>>
         b == [cb EXCEPT !.position = Len(pts) + 1, !.velocity = Len(pts) + 2]
         reg == addBody(bodies, b)
         used == RegistryRoots(reg)
     IN  /\ pts' = CompactHeap(h1, used)
         /\ bodies' = CompactRegistry(reg, used)
         /\ lastOp' = [op |-> "addBody", body |-> cb, before |-> RegistryView(pts, bodies)]
  /\ ncalls' = ncalls + 1
  /\ UNCHANGED <<collisions, traj>>
  /\ UNCHANGED aiVars

RemoveBody(k) ==
  /\ ncalls < MaxCalls
  /\ k \in Keys(bodies)
  /\ LET reg == removeBody(bodies, k)
         used == RegistryRoots(reg)
     IN  /\ pts' = CompactHeap(pts, used)
         /\ bodies' = CompactRegistry(reg, used)
  /\ lastOp' = [op |-> "removeBody", id |-> k]
  /\ ncalls' = ncalls + 1
  /\ UNCHANGED <<collisions, traj>>
  /\ UNCHANGED aiVars

\* the caller builds the updates literal (allocating the Point objects it
\* names) and calls updateBody
UpdateBody(k, u) ==
  /\ ncalls < MaxCalls
  /\ k \in Keys(bodies)
  /\ LET fs == DOMAIN u
         h1 == pts \o [i \in 1..Cardinality(fs) |->
                         IF i = 1 /\ "position" \in fs THEN u.position ELSE u.velocity]
         ups == [f \in fs |-> IF f = "position" THEN Len(pts) + 1 ELSE Len(pts) + Cardinality(fs)]
         reg == updateBody(bodies, k, ups)
         used == RegistryRoots(reg)
     IN  /\ pts' = CompactHeap(h1, used)
         /\ bodies' = CompactRegistry(reg, used)
  /\ lastOp' = [op |-> "updateBody", id |-> k, updates |-> u]
  /\ ncalls' = ncalls + 1
  /\ UNCHANGED <<collisions, traj>>
  /\ UNCHANGED aiVars

Step(dt) ==
  /\ ncalls < MaxCalls
  /\ LET r == step(pts, bodies, dt)
     IN  /\ pts' = r.heap
         /\ collisions' = r.collisions
  /\ ncalls' = ncalls + 1
  /\ lastOp' = [op |-> "step", dt |-> dt]
  /\ UNCHANGED <<bodies, traj>>
  /\ UNCHANGED aiVars

StopAllBodies ==
  /\ ncalls < MaxCalls
  /\ bodies # <<>>
  /\ pts' = stopAllBodies(pts, bodies, 1)
  /\ lastOp' = [op |-> "stopAllBodies"]
  /\ ncalls' = ncalls + 1
  /\ UNCHANGED <<bodies, collisions, traj>>
  /\ UNCHANGED aiVars

Next ==
  \/ \E cb \in CallerBodies : AddBody(cb)
  \/ \E k \in Keys(bodies) : RemoveBody(k)
  \/ \E k \in Keys(bodies), u \in CallerUpdates : UpdateBody(k, u)
  \/ \E dt \in DeltaTimes : Step(dt)
  \/ StopAllBodies

Spec == Init /\ [][Next]_vars

\* ------------------------------------------------------- engine properties

InBounds(h, b) ==
  /\ ~IsNaN(h[b.position].x) /\ ~IsNaN(h[b.position].y)
  /\ margin + b.radius <= h[b.position].x
  /\ h[b.position].x <= boardWidth - margin - b.radius
  /\ margin + b.radius <= h[b.position].y
  /\ h[b.position].y <= boardHeight - margin - b.radius

\* C1: after any call to step, every non-static body lies inside the playing
\* area (margin + radius <= x <= boardWidth - margin - radius, and the same
\* for y), also when the body took part in a body-body collision in that step.
C1_BodiesStayInPlayingArea ==
  lastOp.op = "step" =>
    \A i \in 1..Len(bodies) : ~bodies[i].body.isStatic => InBounds(pts, bodies[i].body)

\* the body literal handed to addBody is malformed for the registry `before`
Malformed(cb, before) ==
  \/ \E i \in 1..Len(before) : before[i].key = cb.id
  \/ cb.radius <= 0
  \/ cb.mass <= 0

\* C2: addBody rejects malformed input (an id already registered, radius <= 0
\* or mass <= 0) and leaves the registry unchanged: the body is not accepted
\* and replaces no entry.
C2_AddBodyRejectsMalformed ==
  (lastOp.op = "addBody" /\ Malformed(lastOp.body, lastOp.before)) =>
    RegistryView(pts, bodies) = lastOp.before

\* two bodies, not both static, overlap away from the walls: their centres
\* are distinct and closer than the sum of the radii, they are at rest, have
\* positive mass, and each is further than the overlap from every wall
OverlapAwayFromWalls(h, reg) ==
  /\ Len(reg) = 2
  /\ LET a == reg[1].body
         b == reg[2].body
         d == distance(h[a.position], h[b.position])
         inner(c) == [c EXCEPT !.radius = @ + (a.radius + b.radius - d)]
     IN  /\ ~(a.isStatic /\ b.isStatic)
         /\ a.mass > 0 /\ b.mass > 0
         /\ h[a.velocity] = Pt(0, 0) /\ h[b.velocity] = Pt(0, 0)
         /\ 0 < d /\ d < a.radius + b.radius
         /\ InBounds(h, inner(a)) /\ InBounds(h, inner(b))

\* C7: one step resolves an overlap: for two bodies (not both static, away
\* from the walls) whose centre distance is below the sum of the radii, as
\* discs A at (100,100) and B at (115,100) of radius 10, the centre distance
\* after a single step is at least the sum of the radii.
C7_OneStepResolvesOverlap ==
  [][(OverlapAwayFromWalls(pts, bodies) /\ lastOp'.op = "step" /\ ncalls' = ncalls + 1) =>
       distance(pts'[bodies[1].body.position], pts'[bodies[2].body.position])
         >= bodies[1].body.radius + bodies[2].body.radius]_vars

\* ------------------------------------------------- prediction against step

MaxBudget == 3

\* the single non-static body of the prediction scenario: discs and the
\* striker, at rest, slow, moving, and moving into a wall
TrajBodies ==
  { Disc("a", 100000, 100000, 300000, 0),
    Disc("a", 100000, 100000, 400, 0),
    Disc("a", 765000, 100000, 600000, 100000),
    Disc("a", 100000, 100000, 0, 0),
    [id |-> "striker", position |-> Pt(400000, 550000), velocity |-> Pt(300000, -400000),
     radius |-> 12000, mass |-> 2000, friction |-> 25, restitution |-> 900,
     isStatic |-> FALSE],
    [id |-> "striker", position |-> Pt(400000, 560000), velocity |-> Pt(0, 50000),
     radius |-> 12000, mass |-> 2000, friction |-> 25, restitution |-> 900,
     isStatic |-> FALSE] }

InitTraj ==
  \E cb \in TrajBodies :
    /\ pts = <<cb.position, cb.velocity>>
    /\ bodies = addBody(<<>>, [cb EXCEPT !.position = 1, !.velocity = 2])
    /\ collisions = <<>>
    /\ lastOp = [op |-> "new"]
    /\ traj = NoTrajectory
    /\ ncalls = 0
    /\ difficulty = "medium"
    /\ gameState = NoGameState
    /\ shots = <<>>
    /\ bestShot = NullShot
    /\ game = NoGame
    /\ hook = NoHook

\* a call of simulateTrajectory on the Point objects at startPos and
\* velocity; its locals pos and vel are unreachable when it returns
SimulateTrajectory(startPos, velocity, radius, steps, dt) ==
  /\ ncalls < MaxCalls
  /\ LET r == simulateTrajectory(pts, startPos, velocity, radius, steps, dt)
     IN  /\ pts' = SubSeq(r.heap, 1, Len(pts))
         /\ traj' = [called |-> TRUE, start |-> pts[startPos], velocity |-> pts[velocity],
                     radius |-> radius, steps |-> steps, dt |-> dt, at |-> ncalls + 1,
                     points |-> r.trajectory]
  /\ lastOp' = [op |-> "simulateTrajectory", startPos |-> startPos, velocity |-> velocity]
  /\ ncalls' = ncalls + 1
  /\ UNCHANGED <<bodies, collisions>>
  /\ UNCHANGED aiVars

\* the trajectory of the registered body is predicted
PredictBody(steps, dt) ==
  SimulateTrajectory(bodies[1].body.position, bodies[1].body.velocity,
                     bodies[1].body.radius, steps, dt)

\* the registered body is stepped with the time step of the prediction
StepAsPredicted(dt) ==
  /\ traj.called => dt = traj.dt
  /\ Step(dt)

NextTraj ==
  \/ \E n \in 0..MaxBudget, dt \in DeltaTimes : PredictBody(n, dt)
  \/ \E dt \in DeltaTimes : StepAsPredicted(dt)

SpecTraj == InitTraj /\ [][NextTraj]_vars

\* the number of step calls made since the prediction
StepsSincePrediction == ncalls - traj.at

AtRest(h, b) == h[b.velocity] = Pt(0, 0)

\* the positions alone: the k-th predicted point is the body's position
\* after k steps
PredictedPointReached ==
  traj.called /\ StepsSincePrediction < Len(traj.points)
    => traj.points[StepsSincePrediction + 1] = pts[bodies[1].body.position]

\* a prediction that ended before its budget ends where the stepped body rests
PredictionStopsAtRest ==
  (/\ traj.called
   /\ StepsSincePrediction = Len(traj.points)
   /\ Len(traj.points) < traj.steps) => AtRest(pts, bodies[1].body)

\* C6: simulateTrajectory predicts what step does: for a registry holding a
\* single non-static body, the k-th predicted point is the body's position
\* after k step(dt) calls, for every k below the returned length, and a
\* prediction shorter than its budget ends where the stepped body is at rest.
C6_PredictionMatchesStep == PredictedPointReached /\ PredictionStopsAtRest

\* C10 (as stated): simulateTrajectory returns at most stepBudget points and,
\* for every non-zero starting velocity and every step budget, 0 and 1
\* included, a non-empty sequence that begins with the start point.
C10_NonEmptyForEveryBudget ==
  traj.called =>
    /\ Len(traj.points) <= traj.steps
    /\ traj.velocity # Pt(0, 0) =>
         traj.points # <<>> /\ traj.points[1] = traj.start

\* C10 (amended): simulateTrajectory returns at most stepBudget points for
\* every budget, 0 included, and, for every budget of at least 1 and every
\* starting velocity, a non-empty sequence that begins with the start point.
C10_WithinBudgetAndStartsAtStart ==
  traj.called =>
    /\ Len(traj.points) <= traj.steps
    /\ traj.steps >= 1 => traj.points # <<>> /\ traj.points[1] = traj.start

\* a prediction with a budget of at least 2 that stopped after its first point
C10_Witness ==
  /\ traj.called /\ traj.steps >= 2 /\ traj.velocity # Pt(0, 0)
  /\ Len(traj.points) = 1 /\ traj.points[1] = traj.start

\* --------------------------------------------------------- planning session

\* A planning session: the board is drawn by InitAI and one query is made.

MaxCount == 2

\* a coin as CarromGameManager.initializeGame creates it
Coin(id, px, py) ==
  [id |-> id, position |-> Pt(px, py), velocity |-> Pt(0, 0), radius |-> 8000,
   mass |-> 1000, friction |-> 20, restitution |-> 800, isStatic |-> FALSE]

\* the striker as initializeGame creates it, with the velocity it has
Striker(vx, vy) ==
  [id |-> "striker", position |-> Pt(400000, 550000), velocity |-> Pt(vx, vy),
   radius |-> 12000, mass |-> 2000, friction |-> 25, restitution |-> 900,
   isStatic |-> FALSE]

\* the boards a planning session starts from: a coin near the base line, a
\* coin in the centre, a coin far from the base line, a coin with an
\* opponent's coin, the opponent's turn, and a coin lying in a pocket
PlannerScenarios ==
  { [playerCoins |-> <<Coin("white_0", 100000, 500000)>>, opponentCoins |-> <<>>,
     striker |-> Striker(0, 0), currentPlayer |-> "player"],
    [playerCoins |-> <<Coin("white_0", 400000, 300000)>>, opponentCoins |-> <<>>,
     striker |-> Striker(30000, -40000), currentPlayer |-> "player"],
    [playerCoins |-> <<Coin("white_0", 400000, 60000)>>, opponentCoins |-> <<>>,
     striker |-> Striker(0, 0), currentPlayer |-> "player"],
    [playerCoins |-> <<Coin("white_0", 100000, 500000)>>,
     opponentCoins |-> <<Coin("black_0", 700000, 300000)>>,
     striker |-> Striker(30000, -40000), currentPlayer |-> "player"],
    [playerCoins |-> <<Coin("white_0", 100000, 500000)>>,
     opponentCoins |-> <<Coin("black_0", 700000, 520000)>>,
     striker |-> Striker(0, 0), currentPlayer |-> "opponent"],
    [playerCoins |-> <<Coin("white_0", 35000, 35000)>>, opponentCoins |-> <<>>,
     striker |-> Striker(0, 0), currentPlayer |-> "player"] }

Difficulties == {"easy", "expert"}

\* the hook's registration effect and its snapshot: the registered bodies and
\* the snapshot's bodies share the coins' position and velocity objects
InitAI ==
  \E sc \in PlannerScenarios, registered \in BOOLEAN, d \in Difficulties :
    LET lits == sc.playerCoins \o sc.opponentCoins \o <<sc.striker>>
        np == Len(sc.playerCoins)
        body(i) == [lits[i] EXCEPT !.position = 2 * i - 1, !.velocity = 2 * i]
    IN  /\ pts = [a \in 1..(2 * Len(lits)) |->
                    IF a % 2 = 1 THEN lits[(a + 1) \div 2].position
                    ELSE lits[a \div 2].velocity]
        /\ bodies = IF registered
                    THEN [i \in 1..Len(lits) |-> [key |-> lits[i].id, body |-> body(i)]]
                    ELSE <<>>
        /\ gameState = [playerCoins |-> [i \in 1..np |-> body(i)],
                        opponentCoins |-> [i \in 1..Len(sc.opponentCoins) |-> body(np + i)],
                        striker |-> body(Len(lits)),
                        pockets |-> Pockets,
                        currentPlayer |-> sc.currentPlayer]
        /\ difficulty = d
        /\ collisions = <<>>
        /\ lastOp = [op |-> "new"]
        /\ traj = NoTrajectory
        /\ ncalls = 0
        /\ shots = <<>>
        /\ bestShot = NullShot
        /\ game = NoGame
        /\ hook = NoHook

AnalyzeShot ==
  /\ lastOp.op = "new"
  /\ shots' = analyzeShot(pts, bodies, gameState, AccuracyMultiplier(difficulty))
  /\ lastOp' = [op |-> "analyzeShot"]
  /\ ncalls' = ncalls + 1
  /\ UNCHANGED <<pts, bodies, collisions, traj, difficulty, gameState, bestShot, game, hook>>

GetBestShot ==
  /\ lastOp.op = "new"
  /\ bestShot' = getBestShot(pts, bodies, gameState, AccuracyMultiplier(difficulty))
  /\ lastOp' = [op |-> "getBestShot"]
  /\ ncalls' = ncalls + 1
  /\ UNCHANGED <<pts, bodies, collisions, traj, difficulty, gameState, shots, game, hook>>

GetShotOptions(count) ==
  /\ lastOp.op = "new"
  /\ shots' = getShotOptions(pts, bodies, gameState, AccuracyMultiplier(difficulty), count)
  /\ lastOp' = [op |-> "getShotOptions", count |-> count]
  /\ ncalls' = ncalls + 1
  /\ UNCHANGED <<pts, bodies, collisions, traj, difficulty, gameState, bestShot, game, hook>>

\* a prediction for the striker, on the snapshot's own objects
PredictStriker(steps, dt) ==
  /\ lastOp.op = "new"
  /\ SimulateTrajectory(gameState.striker.position, gameState.striker.velocity,
                        gameState.striker.radius, steps, dt)

\* isPathClear from a striker position to a coin of the snapshot
IsPathClear(s, coin, excludeIds) ==
  /\ lastOp.op = "new"
  /\ lastOp' = [op |-> "isPathClear", start |-> getStrikerStartArea[s], end |-> coin.position,
                excludeIds |-> excludeIds,
                clear |-> isPathClear(pts, bodies, getStrikerStartArea[s], pts[coin.position],
                                      excludeIds, DefaultBuffer * Milli)]
  /\ ncalls' = ncalls + 1
  /\ UNCHANGED <<pts, bodies, collisions, traj>>
  /\ UNCHANGED aiVars

NextAI ==
  \/ AnalyzeShot
  \/ GetBestShot
  \/ \E count \in 0..MaxCount : GetShotOptions(count)
  \/ \E n \in 1..MaxBudget, dt \in DeltaTimes : PredictStriker(n, dt)
  \/ \E s \in {1, 7}, excludeIds \in {{}, {"white_0", "striker"}} :
       IsPathClear(s, gameState.playerCoins[1], excludeIds)

SpecAI == InitAI /\ [][NextAI]_vars

\* the operations of prediction and planning
ReadOnlyOps ==
  {"simulateTrajectory", "isPathClear", "analyzeShot", "getBestShot", "getShotOptions"}

\* what the last planner call returned, as a sequence of shots
Returned ==
  CASE lastOp.op \in {"analyzeShot", "getShotOptions"} -> shots
    [] lastOp.op = "getBestShot" -> IF bestShot = NullShot THEN <<>> ELSE <<bestShot>>
    [] OTHER -> <<>>

\* C3: every candidate returned by analyzeShot, getBestShot or getShotOptions,
\* of every kind, has a successProbability within [0.05, 0.95].
C3_ProbabilityClamped ==
  \A i \in 1..Len(Returned) :
    500 <= Returned[i].successProbability /\ Returned[i].successProbability <= 9500

\* the current player has a live target disc
HasLiveTarget == getTargetCoins(pts, gameState) # <<>>

\* C4: whenever the current player has at least one non-pocketed target disc,
\* analyzeShot returns a non-empty list and getBestShot a candidate, not null.
C4_PlannerNeverEmpty ==
  HasLiveTarget =>
    /\ lastOp.op = "analyzeShot" => shots # <<>>
    /\ lastOp.op = "getBestShot" => bestShot # NullShot

\* a live target none of whose striker position, pocket and intermediate coin
\* combinations passes the direct or carom tolerance, and a non-empty analysis
C4_Witness ==
  /\ lastOp.op = "analyzeShot" /\ HasLiveTarget /\ shots # <<>>
  /\ \A i \in 1..Len(shots) : shots[i].type = "bank"
  /\ LET all == CandidateShots(pts, bodies, gameState, AccuracyMultiplier(difficulty))
     IN  \A i \in 1..Len(all) : all[i].type = "bank"

\* C5: simulateTrajectory, isPathClear, analyzeShot, getBestShot and
\* getShotOptions leave every registered body, the set of registered ids, and
\* the start point, velocity and snapshot objects passed in unchanged.
C5_PredictionIsReadOnly ==
  [][(lastOp'.op \in ReadOnlyOps /\ ncalls' = ncalls + 1) =>
       (pts' = pts /\ bodies' = bodies /\ gameState' = gameState)]_vars

\* a prediction of at least two points was made for a registered, moving striker
C5_Witness ==
  /\ lastOp.op = "simulateTrajectory" /\ bodies # <<>>
  /\ Len(traj.points) >= 2 /\ traj.points[2] # traj.start
  /\ pts[gameState.striker.position] = traj.start

\* the lane of a coin is completely clear: for some striker position and
\* pocket, no body other than the coin and the striker lies on the segment
\* from the striker position to the coin, nor from the coin to the pocket
ClearLane(h, reg, coin, strikerId) ==
  \E s \in 1..Len(getStrikerStartArea), p \in 1..Len(Pockets) :
    /\ isPathClear(h, reg, getStrikerStartArea[s], h[coin.position],
                   {coin.id, strikerId}, DefaultBuffer * Milli)
    /\ isPathClear(h, reg, h[coin.position], Pockets[p].position,
                   {coin.id, strikerId}, DefaultBuffer * Milli)

\* the current player's live coins that are registered and have a clear lane
ClearTargets ==
  LET targets == getTargetCoins(pts, gameState)
  IN  {targets[t].id : t \in {t \in 1..Len(targets) :
         /\ targets[t].id \in Keys(bodies)
         /\ ClearLane(pts, bodies, targets[t], gameState.striker.id)}}

\* C8: given a target disc of the current player that is registered in the
\* engine and has a completely clear lane, the first element analyzeShot
\* returns is a direct candidate for that target with successProbability
\* above 0.5.
C8_ClearLaneDirectFirst ==
  (lastOp.op = "analyzeShot" /\ ClearTargets # {}) =>
    /\ shots # <<>>
    /\ shots[1].type = "direct"
    /\ shots[1].targetCoin \in ClearTargets
    /\ shots[1].successProbability > 5000

\* shot a is among the shots of the sequence
IsIn(a, seq) == \E i \in 1..Len(seq) : seq[i] = a

\* C9: in the list analyzeShot returns, a candidate placed earlier never has
\* a successProbability more than 0.1 below one placed later, and no
\* candidate left out of the list has a successProbability more than 0.1
\* above a candidate in it.
C9_RankedWithinTolerance ==
  lastOp.op = "analyzeShot" =>
    /\ \A i, j \in 1..Len(shots) :
         i < j => shots[i].successProbability >= shots[j].successProbability - 1000
    /\ LET all == CandidateShots(pts, bodies, gameState, AccuracyMultiplier(difficulty))
       IN  \A k \in 1..Len(all) :
             IsIn(all[k], shots) \/
               \A i \in 1..Len(shots) :
                 all[k].successProbability <= shots[i].successProbability + 1000

\* an analysis that returned the top ten of more candidates, whose
\* probabilities differ by more than 0.1 both within the list and between the
\* list and the candidates left out
C9_Witness ==
  /\ lastOp.op = "analyzeShot" /\ Len(shots) = TopShots
  /\ shots[1].successProbability > shots[TopShots].successProbability + 1000
  /\ LET all == CandidateShots(pts, bodies, gameState, AccuracyMultiplier(difficulty))
     IN  \E k \in 1..Len(all) :
           all[k].successProbability < shots[TopShots].successProbability - 1000

\* --------------------------------------------------------- collision scenes

\* A collision scene: the bodies are registered in some order and stepped.

\* a disc of radius 10 and friction 0.02
Body(id, px, py, vx, vy, mass, restitution, isStatic) ==
  [id |-> id, position |-> Pt(px, py), velocity |-> Pt(vx, vy), radius |-> 10000,
   mass |-> mass, friction |-> 20, restitution |-> restitution, isStatic |-> isStatic]

\* the scenes: two equal discs of restitution 1 head-on along the x axis and
\* along a 3-4-5 diagonal; discs of masses 1 and 2 and restitution 0.5 and 0.8
\* closing obliquely; two discs on the same centre; a disc moving into a
\* static disc that carries a velocity; three discs overlapping one another;
\* a slow disc touching the left wall; two discs a glancing pair apart
Scenes ==
  { << Body("a", 100000, 100000, 50000, 0, 1000, 1000, FALSE),
       Body("b", 115000, 100000, -30000, 0, 1000, 1000, FALSE) >>,
    << Body("a", 100000, 100000, 30000, 40000, 1000, 1000, FALSE),
       Body("b", 109000, 112000, -30000, -40000, 1000, 1000, FALSE) >>,
    << Body("a", 100000, 100000, 40000, 10000, 1000, 500, FALSE),
       Body("b", 112000, 109000, -20000, 5000, 2000, 800, FALSE) >>,
    << Body("a", 200000, 200000, 0, 0, 1000, 800, FALSE),
       Body("b", 200000, 200000, 0, 0, 1000, 800, FALSE) >>,
    << Body("a", 100000, 100000, 0, 50000, 1000, 800, FALSE),
       Body("b", 100000, 115000, 3000, 4000, 1000, 800, TRUE) >>,
    << Body("a", 100000, 100000, 0, 0, 1000, 800, FALSE),
       Body("b", 115000, 100000, 0, 0, 1000, 800, FALSE),
       Body("c", 107000, 110000, 0, 0, 1000, 800, FALSE) >>,
    << Body("a", 30000, 100000, -120, 0, 1000, 800, FALSE) >>,
    << Body("a", 300000, 300000, 200, 0, 1000, 800, FALSE),
       Body("b", 330000, 300000, -200, 0, 1000, 800, FALSE) >> }

\* the same bodies, added in the opposite order
Reverse(s) == [i \in 1..Len(s) |-> s[Len(s) + 1 - i]]

RECURSIVE AddAll(_, _, _)
\* addBody for the literals lits[i], lits[i + 1], ...; the position and the
\* velocity object of lits[i] are at the addresses 2i - 1 and 2i
AddAll(reg, lits, i) ==
  IF i > Len(lits) THEN reg
  ELSE AddAll(addBody(reg, [lits[i] EXCEPT !.position = 2 * i - 1, !.velocity = 2 * i]),
              lits, i + 1)

InitScene ==
  \E sc \in Scenes, reversed \in BOOLEAN :
    LET lits == IF reversed THEN Reverse(sc) ELSE sc
    IN  /\ pts = [a \in 1..(2 * Len(lits)) |->
                    IF a % 2 = 1 THEN lits[(a + 1) \div 2].position
                    ELSE lits[a \div 2].velocity]
        /\ bodies = AddAll(<<>>, lits, 1)
        /\ collisions = <<>>
        /\ lastOp = [op |-> "new"]
        /\ traj = NoTrajectory
        /\ ncalls = 0
        /\ difficulty = "medium"
        /\ gameState = NoGameState
        /\ shots = <<>>
        /\ bestShot = NullShot
        /\ game = NoGame
        /\ hook = NoHook

NextScene == \E dt \in DeltaTimes : Step(dt)

SpecScene == InitScene /\ [][NextScene]_vars

\* ------------------------------------------------------------ path queries

\* A path session: one body is registered and isPathClear is queried.

\* the registered body: a disc of radius 10, a coin of radius 8, and a peg of
\* radius 0.25
PathBodies ==
  { [Body("a", 100000, 100000, 0, 0, 1000, 800, FALSE) EXCEPT !.radius = 10000],
    [Body("a", 100000, 100000, 0, 0, 1000, 800, FALSE) EXCEPT !.radius = 8000],
    [Body("a", 100750, 100000, 0, 0, 1000, 800, TRUE) EXCEPT !.radius = 250] }

\* the segments queried: short and long ones through (100,100), the segment of
\* no length at (100,100), and one far from every body
PathSegments ==
  { <<Pt(100000, 100000), Pt(103000, 100000)>>,
    <<Pt(100000, 100000), Pt(100000, 100000)>>,
    <<Pt(90000, 100000), Pt(110000, 100000)>>,
    <<Pt(100000, 90000), Pt(100000, 200000)>>,
    <<Pt(50000, 50000), Pt(60000, 50000)>> }

\* the buffers queried: none, a quarter of a unit, and the default
PathBuffers == {0, 250, DefaultBuffer * Milli}

InitPath ==
  \E cb \in PathBodies :
    /\ pts = <<cb.position, cb.velocity>>
    /\ bodies = AddAll(<<>>, <<cb>>, 1)
    /\ collisions = <<>>
    /\ lastOp = [op |-> "new"]
    /\ traj = NoTrajectory
    /\ ncalls = 0
    /\ difficulty = "medium"
    /\ gameState = NoGameState
    /\ shots = <<>>
    /\ bestShot = NullShot
    /\ game = NoGame
    /\ hook = NoHook

\* a call of isPathClear(start, end, excludeIds, buffer)
PathQuery(start, end, excludeIds, buffer) ==
  /\ ncalls < MaxCalls
  /\ lastOp' = [op |-> "isPathClear", start |-> start, end |-> end,
                excludeIds |-> excludeIds, buffer |-> buffer,
                clear |-> isPathClear(pts, bodies, start, end, excludeIds, buffer)]
  /\ ncalls' = ncalls + 1
  /\ UNCHANGED <<pts, bodies, collisions, traj>>
  /\ UNCHANGED aiVars

NextPath ==
  \E seg \in PathSegments, excludeIds \in {{}, {"a"}}, buffer \in PathBuffers :
    PathQuery(seg[1], seg[2], excludeIds, buffer)

SpecPath == InitPath /\ [][NextPath]_vars

\* the point p lies exactly on the segment from s to e
OnSegment(p, s, e) ==
  /\ (e.x - s.x) * (p.y - s.y) = (e.y - s.y) * (p.x - s.x)
  /\ Min(s.x, e.x) <= p.x /\ p.x <= Max(s.x, e.x)
  /\ Min(s.y, e.y) <= p.y /\ p.y <= Max(s.y, e.y)

\* some registered body that is not excluded, of positive radius, has its
\* centre on the segment of the last query
ObstacleOnSegment ==
  \E k \in 1..Len(bodies) :
    /\ bodies[k].body.id \notin lastOp.excludeIds
    /\ bodies[k].body.radius > 0
    /\ OnSegment(pts[bodies[k].body.position], lastOp.start, lastOp.end)

\* C11: isPathClear(start, end, excludeIds, buffer) returns false whenever
\* some registered body not in excludeIds has its centre exactly on the
\* segment from start to end and buffer > 0, for every radius > 0 and every
\* segment length.
C11_ObstacleOnSegmentBlocks ==
  (lastOp.op = "isPathClear" /\ lastOp.buffer > 0 /\ ObstacleOnSegment) => ~lastOp.clear

\* ------------------------------------------------------ collision properties

\* the heap a step(dt) has when its third loop begins: the bodies integrated
\* and clamped to the walls, no collision resolved yet
BeforePairLoop(h, reg, dt) == WallAll(IntegrateAll(h, reg, 1, dt), reg, 1)

\* two non-static bodies of equal mass and restitution 1 overlap, both
\* velocities lie along the contact normal, and the bodies approach each other
HeadOn(h, reg) ==
  /\ Len(reg) = 2
  /\ LET bodyA == reg[1].body
         bodyB == reg[2].body
         c == checkCollision(h, reg, 1, 2)
         va == h[bodyA.velocity]
         vb == h[bodyB.velocity]
     IN  /\ ~bodyA.isStatic /\ ~bodyB.isStatic
         /\ bodyA.mass = bodyB.mass /\ bodyA.mass > 0
         /\ bodyA.restitution = Milli /\ bodyB.restitution = Milli
         /\ c.hit /\ ~PointNaN(c.normal)
         /\ va.x * c.normal.y = va.y * c.normal.x
         /\ vb.x * c.normal.y = vb.y * c.normal.x
         /\ (vb.x - va.x) * c.normal.x + (vb.y - va.y) * c.normal.y < 0

\* C12: collision resolution of two non-static bodies of equal mass and
\* restitution 1 that approach each other head-on exchanges their velocities:
\* after resolveCollision, A has B's previous velocity and B has A's.
C12_HeadOnExchangesVelocities ==
  [][(/\ lastOp'.op = "step" /\ ncalls' = ncalls + 1
      /\ HeadOn(BeforePairLoop(pts, bodies, lastOp'.dt), bodies)) =>
       LET before == BeforePairLoop(pts, bodies, lastOp'.dt)
       IN  /\ pts'[bodies[1].body.velocity] = before[bodies[2].body.velocity]
           /\ pts'[bodies[2].body.velocity] = before[bodies[1].body.velocity]]_vars

\* the last step resolved the collision of two moving discs of equal mass and
\* restitution 1 along a diagonal normal, and they now move apart
C12_Witness ==
  /\ lastOp.op = "step" /\ Len(bodies) = 2 /\ Len(collisions) = 1
  /\ bodies[1].body.mass = bodies[2].body.mass
  /\ bodies[1].body.restitution = Milli /\ bodies[2].body.restitution = Milli
  /\ collisions[1].normal.x # 0 /\ collisions[1].normal.y # 0
  /\ LET va == pts[bodies[1].body.velocity]
         vb == pts[bodies[2].body.velocity]
         n == collisions[1].normal
     IN  /\ va # Pt(0, 0) /\ vb # Pt(0, 0)
         /\ (vb.x - va.x) * n.x + (vb.y - va.y) * n.y > 0

\* mass * velocity of the two bodies of the registry, summed, in one component
\* (c is "x" or "y"); NaN when a velocity is
Momentum(h, reg, c) ==
  LET va == h[reg[1].body.velocity][c]
      vb == h[reg[2].body.velocity][c]
  IN  IF IsNaN(va) \/ IsNaN(vb) THEN NaN
      ELSE reg[1].body.mass * va + reg[2].body.mass * vb

\* the registry holds two non-static bodies of positive mass and restitution
\* in [0, 1] that overlap, so that the step resolves their collision
TwoBodyCollision(h, reg) ==
  /\ Len(reg) = 2
  /\ \A i \in 1..2 :
       /\ ~reg[i].body.isStatic /\ reg[i].body.mass > 0
       /\ 0 <= reg[i].body.restitution /\ reg[i].body.restitution <= Milli
  /\ checkCollision(h, reg, 1, 2).hit

\* two momenta are the same up to the rounding of the two velocities (half a
\* thousandth each)
SameMomentum(p, q, reg) ==
  ~IsNaN(p) /\ ~IsNaN(q) /\ Abs(p - q) <= reg[1].body.mass + reg[2].body.mass

\* C13: for any two non-static bodies with positive masses and restitutions in
\* [0, 1], one collision resolution conserves total momentum: massA*velocityA
\* + massB*velocityB is the same before and after resolveCollision, in both
\* components.
C13_MomentumConserved ==
  [][(/\ lastOp'.op = "step" /\ ncalls' = ncalls + 1
      /\ TwoBodyCollision(BeforePairLoop(pts, bodies, lastOp'.dt), bodies)) =>
       LET before == BeforePairLoop(pts, bodies, lastOp'.dt)
       IN  \A c \in {"x", "y"} :
             SameMomentum(Momentum(before, bodies, c), Momentum(pts', bodies, c), bodies)]_vars

\* what a step leaves behind, as a caller sees it: the state of every
\* registered body, by id, and the list of collision events
StepOutcome(h, reg, cols) ==
  [states |-> {BodyView(h, reg[i].body) : i \in 1..Len(reg)},
   events |-> [k \in 1..Len(cols) |->
                 [bodyA |-> cols[k].idA, bodyB |-> cols[k].idB, normal |-> cols[k].normal,
                  penetration |-> cols[k].penetration, point |-> cols[k].point]]]

\* C14: step is deterministic and scans each unordered pair once: two engines
\* holding the same bodies with the same field values produce, for the same
\* dt, identical body states and identical collision-event lists, regardless
\* of the order in which the bodies were added.  The second engine holds the
\* bodies of the first in the opposite insertion order.
C14_StepIgnoresInsertionOrder ==
  [][(lastOp'.op = "step" /\ ncalls' = ncalls + 1) =>
       LET twin == step(pts, Reverse(bodies), lastOp'.dt)
       IN  StepOutcome(pts', bodies, collisions')
             = StepOutcome(twin.heap, Reverse(bodies), twin.collisions)]_vars

\* ------------------------------------------------- callers and their objects

\* The engine allocates no Point object: every position and velocity object
\* of the registry was passed in by a caller (addBody stores a shallow copy of
\* the body, updateBody assigns the callers' objects), and getBody and
\* getAllBodies return the stored body objects themselves.  A caller can
\* therefore write to each of them.

\* the caller assigns the coordinates of a Point object it passed in
CallerWritesPoint(a, p) ==
  /\ ncalls < MaxCalls
  /\ a \in RegistryRoots(bodies)
  /\ pts' = [pts EXCEPT ![a] = p]
  /\ lastOp' = [op |-> "callerWritesPoint", addr |-> a]
  /\ ncalls' = ncalls + 1
  /\ UNCHANGED <<bodies, collisions, traj>>
  /\ UNCHANGED aiVars

\* the caller assigns the id of the body object getBody(k) returned
CallerWritesId(k, id) ==
  /\ ncalls < MaxCalls
  /\ k \in Keys(bodies)
  /\ bodies' = [bodies EXCEPT ![KeyIndex(bodies, k)].body.id = id]
  /\ lastOp' = [op |-> "callerWritesId", id |-> k]
  /\ ncalls' = ncalls + 1
  /\ UNCHANGED <<pts, collisions, traj>>
  /\ UNCHANGED aiVars

NextAlias ==
  \/ \E cb \in CallerBodies : AddBody(cb)
  \/ \E k \in Keys(bodies), u \in CallerUpdates : UpdateBody(k, u)
  \/ \E dt \in DeltaTimes : Step(dt)
  \/ \E a \in RegistryRoots(bodies) : CallerWritesPoint(a, Pt(50000, 50000))
  \/ \E k \in Keys(bodies) : CallerWritesId(k, "z")

SpecAlias == Init /\ [][NextAlias]_vars

\* every registered body's id is the key it is registered under
IdsAreKeys == \A i \in 1..Len(bodies) : bodies[i].body.id = bodies[i].key

\* the engine operations that may change a registered body's position or
\* velocity (addBody replaces the entry of its key by another body)
MovingOps == {"step", "updateBody", "stopAllBodies", "addBody"}

\* C15: while a body is registered, its id field always equals the key it is
\* registered under, and its position and velocity change only through step,
\* updateBody or stopAllBodies on the engine: no sequence of addBody,
\* updateBody, getBody and getAllBodies calls followed by the caller mutating
\* objects it passed in or received changes the id or the position or velocity
\* stored in the registry.
C15_IdentityAndStateOwned ==
  /\ []IdsAreKeys
  /\ [][\A k \in Keys(bodies) \cap Keys(bodies') :
          LET old == BodyView(pts, bodies[KeyIndex(bodies, k)].body)
              new == BodyView(pts', bodies'[KeyIndex(bodies', k)].body)
          IN  (old.position # new.position \/ old.velocity # new.velocity)
                => lastOp'.op \in MovingOps]_vars

\* ------------------------------------------------ rest threshold after step

\* the velocity of a registered body is exactly zero
AtExactRest(h, b) == h[b.velocity] = Pt(0, 0)

\* C16: after any step, every non-static body is either exactly at rest or
\* has speed above 0.1; equivalently, hasMovingBodies() returns false only
\* when every non-static body's velocity is exactly zero.
C16_RestOrAboveEpsilon ==
  lastOp.op = "step" =>
    /\ \A i \in 1..Len(bodies) :
         LET b == bodies[i].body
         IN  b.isStatic \/ AtExactRest(pts, b)
               \/ NGt(Speed(pts[b.velocity]), SpeedEpsilon)
    /\ ~hasMovingBodies(pts, bodies) =>
         \A i \in 1..Len(bodies) :
           bodies[i].body.isStatic \/ AtExactRest(pts, bodies[i].body)

\* ------------------------------------------------------------ static bodies

\* the registry holds one static and one non-static body that overlap when
\* the pair loop begins, with distinct centres and not moving apart
HitsStatic(h, reg) ==
  /\ Len(reg) = 2
  /\ reg[1].body.isStatic # reg[2].body.isStatic
  /\ LET c == checkCollision(h, reg, 1, 2)
         va == h[reg[1].body.velocity]
         vb == h[reg[2].body.velocity]
     IN  /\ c.hit /\ ~PointNaN(c.normal)
         /\ (vb.x - va.x) * c.normal.x + (vb.y - va.y) * c.normal.y =< 0

\* the impulse of the collision of the two bodies, in one component (c is "x"
\* or "y"): -(1 + e) * vn * n / (1/massA + 1/massB), where
\* 1 / (1/massA + 1/massB) = massA * massB / (massA + massB)
WholeImpulse(h, reg, c) ==
  LET bodyA == reg[1].body
      bodyB == reg[2].body
      n == checkCollision(h, reg, 1, 2).normal
      va == h[bodyA.velocity]
      vb == h[bodyB.velocity]
      vn == Div((vb.x - va.x) * n.x + (vb.y - va.y) * n.y, Milli)
      e == Min(bodyA.restitution, bodyB.restitution)
      reduced == Div(bodyA.mass * bodyB.mass, bodyA.mass + bodyB.mass)
      j == Div(Div((Milli + e) * (0 - vn), Milli) * reduced, Milli)
  IN  Div(j * n[c], Milli)

\* C17: step never changes the position or the velocity of a body with
\* isStatic = true; a non-static body colliding with a static one receives the
\* whole impulse of the collision (its momentum changes by the impulse, away
\* from the static body) and the static body none.
C17_StaticBodiesUntouched ==
  [][(lastOp'.op = "step" /\ ncalls' = ncalls + 1) =>
       /\ \A i \in 1..Len(bodies) :
            bodies[i].body.isStatic =>
              /\ pts'[bodies[i].body.position] = pts[bodies[i].body.position]
              /\ pts'[bodies[i].body.velocity] = pts[bodies[i].body.velocity]
       /\ LET before == BeforePairLoop(pts, bodies, lastOp'.dt)
          IN  HitsStatic(before, bodies) =>
                LET m == IF bodies[1].body.isStatic THEN 2 ELSE 1
                    mover == bodies[m].body
                    sign == IF m = 1 THEN 0 - 1 ELSE 1
                IN  \A c \in {"x", "y"} :
                      Abs(Div(mover.mass * (pts'[mover.velocity][c]
                                              - before[mover.velocity][c]), Milli)
                            - sign * WholeImpulse(before, bodies, c)) =< 3]_vars

\* the last step resolved the collision of a moving disc with a static one:
\* the static disc still has the position and the velocity it was added with,
\* the moving disc has been slowed down
C17_Witness ==
  /\ lastOp.op = "step" /\ Len(bodies) = 2 /\ Len(collisions) = 1
  /\ \E s \in 1..2 :
       /\ bodies[s].body.isStatic /\ ~bodies[3 - s].body.isStatic
       /\ pts[bodies[s].body.position] = Pt(100000, 115000)
       /\ pts[bodies[s].body.velocity] = Pt(3000, 4000)
       /\ pts[bodies[3 - s].body.velocity].y < 40000
       /\ pts[bodies[3 - s].body.velocity].y > 0

\* ------------------------------------------------- direct shots, one by one

\* target coins: in the centre of the board, and just above and just below the
\* horizontal through the bottom pockets, where the reversed coin-to-pocket
\* angle lies on either side of the 0 / 2 pi wrap
DirectTargets == {Pt(400000, 300000), Pt(300000, 569000), Pt(300000, 571000)}

\* striker positions: three of the base line, and positions from which the
\* line to a target deviates from the line of a pocket by 30.000 and by 30.010
\* degrees, on either side
DirectStrikers ==
  {getStrikerStartArea[1], getStrikerStartArea[7], getStrikerStartArea[13],
   Pt(260000, 546103), Pt(260000, 546094), Pt(260000, 592292), Pt(260000, 592301),
   Pt(260000, 547708), Pt(260000, 547699), Pt(260000, 593897), Pt(260000, 593906),
   Pt(350000, 187067), Pt(350000, 187016), Pt(350000, 294640)}

\* a snapshot with one coin of the player, at one of the targets
InitDirect ==
  \E t \in DirectTargets :
    LET coin == [Coin("white_0", t.x, t.y) EXCEPT !.position = 1, !.velocity = 2]
        striker == [Striker(0, 0) EXCEPT !.position = 3, !.velocity = 4]
    IN  /\ pts = <<t, Pt(0, 0), Striker(0, 0).position, Pt(0, 0)>>
        /\ bodies = <<>>
        /\ gameState = [playerCoins |-> <<coin>>, opponentCoins |-> <<>>,
                        striker |-> striker, pockets |-> Pockets,
                        currentPlayer |-> "player"]
        /\ difficulty = "expert"
        /\ collisions = <<>>
        /\ lastOp = [op |-> "new"]
        /\ traj = NoTrajectory
        /\ ncalls = 0
        /\ shots = <<>>
        /\ bestShot = NullShot
        /\ game = NoGame
        /\ hook = NoHook

\* calculateDirectShots(targetCoin, pocket, [strikerPos], gameState)
CalculateDirectShots(p, strikerPos) ==
  /\ lastOp.op = "new"
  /\ LET targetCoin == gameState.playerCoins[1]
     IN  shots' = calculateDirectShots(pts, targetCoin, Pockets[p], <<strikerPos>>,
                     PathClearRow(pts, bodies, <<strikerPos>>, pts[targetCoin.position]),
                     AccuracyMultiplier(difficulty))
  /\ lastOp' = [op |-> "calculateDirectShots", pocket |-> p, strikerPos |-> strikerPos]
  /\ ncalls' = ncalls + 1
  /\ UNCHANGED <<pts, bodies, collisions, traj, difficulty, gameState, bestShot, game, hook>>

NextDirect ==
  \E p \in 1..Len(Pockets), strikerPos \in DirectStrikers : CalculateDirectShots(p, strikerPos)

SpecDirect == InitDirect /\ [][NextDirect]_vars

\* the difference of two angles on the circle, in 1/1000 degree: the shorter
\* of the two arcs between them
CircularDifference(a, b) ==
  LET d == (a - b) % (2 * PI)
  IN  Min(d, 2 * PI - d)

\* the deviation of the last calculateDirectShots call: the circular
\* difference between the striker-to-target angle and the target-to-pocket
\* angle reversed by pi
Deviation ==
  LET targetPos == pts[gameState.playerCoins[1].position]
  IN  CircularDifference(angle(lastOp.strikerPos, targetPos),
                         angle(targetPos, Pockets[lastOp.pocket].position) + PI)

\* C18: a direct candidate is generated for a striker position, a target and
\* a pocket exactly when the circular difference between the striker-to-target
\* angle and the target-to-pocket angle reversed by pi is at most 30 degrees
\* (30 degrees accepted, 30.01 degrees rejected), on both sides of the 0 / 2 pi
\* wrap.
C18_DirectWithinThirtyDegrees ==
  lastOp.op = "calculateDirectShots" =>
    /\ (shots # <<>>) <=> (Deviation =< 30000)
    /\ shots # <<>> =>
         /\ Len(shots) = 1
         /\ shots[1].type = "direct"
         /\ shots[1].targetCoin = gameState.playerCoins[1].id
         /\ shots[1].targetPocket = Pockets[lastOp.pocket]
         /\ shots[1].strikerPosition = lastOp.strikerPos

\* a candidate was generated at a deviation of exactly 30 degrees across the
\* wrap: the two normalized angles are 330 degrees apart
C18_Witness ==
  /\ lastOp.op = "calculateDirectShots"
  /\ shots # <<>>
  /\ Deviation = 30000
  /\ LET targetPos == pts[gameState.playerCoins[1].position]
     IN  Abs(normalizeAngle(angle(lastOp.strikerPos, targetPos))
             - normalizeAngle(angle(targetPos, Pockets[lastOp.pocket].position) + PI))
           = 330000

\* ------------------------------------------------------------ shot options

\* the candidates analyzeShot returns for the snapshot of the session
RankedCandidates == analyzeShot(pts, bodies, gameState, AccuracyMultiplier(difficulty))

\* C19: getShotOptions(snapshot, count) returns exactly the first
\* min(count, length) candidates of analyzeShot, in the same order, for every
\* count >= 0; analyzeShot never returns more than 10 candidates; getBestShot
\* returns the first candidate, or null exactly when analyzeShot returns none.
C19_OptionsArePrefixOfRanking ==
  /\ lastOp.op = "getShotOptions" =>
       /\ Len(shots) = Min(lastOp.count, Len(RankedCandidates))
       /\ \A i \in 1..Len(shots) : shots[i] = RankedCandidates[i]
  /\ lastOp.op = "analyzeShot" => Len(shots) =< 10
  /\ lastOp.op = "getBestShot" =>
       /\ (bestShot = NullShot) <=> (RankedCandidates = <<>>)
       /\ RankedCandidates # <<>> => bestShot = RankedCandidates[1]

\* getShotOptions(snapshot, 2) returned two of the ten candidates that
\* analyzeShot kept of more than ten
C19_Witness ==
  /\ lastOp.op = "getShotOptions" /\ lastOp.count = 2
  /\ Len(shots) = 2
  /\ shots[1] # shots[2]
  /\ Len(RankedCandidates) = 10
  /\ Len(CandidateShots(pts, bodies, gameState, AccuracyMultiplier(difficulty))) > 10

\* --------------------------------------------------------- collision events

\* a Point of two numbers
Numeric(p) == ~PointNaN(p)

\* C20: every collision event returned by step has a unit-length normal that
\* points from body A to body B and a penetration >= 0, for every overlapping
\* pair, coincident centres included; and no step leaves a body with an
\* undefined (non-numeric) position or velocity.  The direction is compared
\* with the centres the first event of the step was detected at, which are
\* the centres the pair loop began with.
C20_EventsWellFormed ==
  [][(lastOp'.op = "step" /\ ncalls' = ncalls + 1) =>
       /\ \A k \in 1..Len(collisions') :
            LET c == collisions'[k]
            IN  /\ Numeric(c.normal)
                /\ Abs(Hypot(c.normal.x, c.normal.y) - Milli) =< 1
                /\ c.penetration >= 0
       /\ Len(collisions') > 0 =>
            LET c == collisions'[1]
                before == BeforePairLoop(pts, bodies, lastOp'.dt)
                pa == before[bodies[c.a].body.position]
                pb == before[bodies[c.b].body.position]
            IN  /\ Numeric(c.normal)
                /\ (pb.x - pa.x) * c.normal.x + (pb.y - pa.y) * c.normal.y > 0
       /\ \A i \in 1..Len(bodies') :
            /\ Numeric(pts'[bodies'[i].body.position])
            /\ Numeric(pts'[bodies'[i].body.velocity])]_vars

\* ------------------------------------------------- snapshots and the engine

\* the pockets a snapshot can carry: the four corner pockets, as the hook's
\* getAISuggestions writes them, and the two pockets of another board
SnapshotPockets ==
  { Pockets,
    << [position |-> Pt(400000, 30000), radius |-> PocketRadius * Milli],
       [position |-> Pt(400000, 570000), radius |-> PocketRadius * Milli] >> }

\* a planner built on an engine that holds the snapshot's bodies, or none
InitSnapshot ==
  \E x \in {100000, 400000, 700000}, y \in {300000, 500000}, pockets \in SnapshotPockets,
     registered \in BOOLEAN :
    LET lits == <<Coin("white_0", x, y), Striker(0, 0)>>
        body(i) == [lits[i] EXCEPT !.position = 2 * i - 1, !.velocity = 2 * i]
    IN  /\ pts = [a \in 1..(2 * Len(lits)) |->
                    IF a % 2 = 1 THEN lits[(a + 1) \div 2].position
                    ELSE lits[a \div 2].velocity]
        /\ bodies = IF registered
                    THEN [i \in 1..Len(lits) |-> [key |-> lits[i].id, body |-> body(i)]]
                    ELSE <<>>
        /\ gameState = [playerCoins |-> <<body(1)>>, opponentCoins |-> <<>>,
                        striker |-> body(2), pockets |-> pockets,
                        currentPlayer |-> "player"]
        /\ difficulty = "expert"
        /\ collisions = <<>>
        /\ lastOp = [op |-> "new"]
        /\ traj = NoTrajectory
        /\ ncalls = 0
        /\ shots = <<>>
        /\ bestShot = NullShot
        /\ game = NoGame
        /\ hook = NoHook

NextSnapshot ==
  \/ AnalyzeShot
  \/ GetBestShot
  \/ \E count \in 0..MaxCount : GetShotOptions(count)

SpecSnapshot == InitSnapshot /\ [][NextSnapshot]_vars

\* C21: the planner's output is determined by the snapshot it is given: every
\* returned candidate's target pocket is one of the snapshot's pockets, and
\* two analyzeShot calls with equal snapshots return equal rankings and
\* probabilities even when the physics engine's registry differs between the
\* calls (here: the registry holds the snapshot's bodies in one call and is
\* empty in the other).
C21_OutputDeterminedBySnapshot ==
  lastOp.op = "analyzeShot" =>
    /\ \A i \in 1..Len(shots) :
         \E p \in 1..Len(gameState.pockets) : shots[i].targetPocket = gameState.pockets[p]
    /\ LET coins == gameState.playerCoins \o gameState.opponentCoins \o <<gameState.striker>>
           registry == [i \in 1..Len(coins) |-> [key |-> coins[i].id, body |-> coins[i]]]
           other == IF bodies = <<>> THEN registry ELSE <<>>
       IN  shots = analyzeShot(pts, other, gameState, AccuracyMultiplier(difficulty))

\* --------------------------------------------------------- lineIntersection

\* the crossing of the first segment with the line through the second: the
\* parameter u is not tested
IntersectionWithLine(line1, line2) ==
  LET x1 == line1.start.x
      y1 == line1.start.y
      x2 == line1.end.x
      y2 == line1.end.y
      x3 == line2.start.x
      y3 == line2.start.y
      x4 == line2.end.x
      y4 == line2.end.y
      denom == (x1 - x2) * (y3 - y4) - (y1 - y2) * (x3 - x4)
      tNum == (x1 - x3) * (y3 - y4) - (y1 - y3) * (x3 - x4)
      s == IF denom < 0 THEN 0 - 1 ELSE 1
  IN  IF denom = 0 THEN <<>>
      ELSE IF s * tNum >= 0 /\ s * tNum =< s * denom
           THEN <<Pt(x1 + Div(s * tNum * (x2 - x1), s * denom),
                     y1 + Div(s * tNum * (y2 - y1), s * denom))>>
           ELSE <<>>

\* lineIntersection(line1, line2): <<point>>, or <<>> for null.  The
\* coordinates are multiples of 1/1000, so that denom and the numerators of t
\* and u are exact, |denom| < 1e-10 is denom = 0, and t and u are compared
\* with 0 and 1 exactly; the returned point is rounded to 1/1000.
lineIntersection(line1, line2) ==
  LET x1 == line1.start.x
      y1 == line1.start.y
      x2 == line1.end.x
      y2 == line1.end.y
      x3 == line2.start.x
      y3 == line2.start.y
      x4 == line2.end.x
      y4 == line2.end.y
      denom == (x1 - x2) * (y3 - y4) - (y1 - y2) * (x3 - x4)
      tNum == (x1 - x3) * (y3 - y4) - (y1 - y3) * (x3 - x4)
      uNum == 0 - ((x1 - x2) * (y1 - y3) - (y1 - y2) * (x1 - x3))
      s == IF denom < 0 THEN 0 - 1 ELSE 1
      inUnit(num) == s * num >= 0 /\ s * num =< s * denom
  IN  IF denom = 0 THEN <<>>
      ELSE IF inUnit(tNum) /\ inUnit(uNum)
           THEN <<Pt(x1 + Div(s * tNum * (x2 - x1), s * denom),
                     y1 + Div(s * tNum * (y2 - y1), s * denom))>>
           ELSE <<>>

\* the end points of the segments
LinePoints == {Pt(px, py) : px \in {0, 40, 100}, py \in {0, 30, 100}}

\* a call of lineIntersection
LineIntersection(line1, line2) ==
  /\ lastOp.op = "new"
  /\ lastOp' = [op |-> "lineIntersection", line1 |-> line1, line2 |-> line2,
                result |-> lineIntersection(line1, line2)]
  /\ ncalls' = ncalls + 1
  /\ UNCHANGED <<pts, bodies, collisions, traj>>
  /\ UNCHANGED aiVars

NextLine ==
  \E a \in LinePoints, b \in LinePoints, c \in LinePoints, d \in LinePoints :
    LineIntersection([start |-> a, end |-> b], [start |-> c, end |-> d])

SpecLine == Init /\ [][NextLine]_vars

\* (b - a) x (c - a): twice the signed area of the triangle a, b, c
Cross(a, b, c) == (b.x - a.x) * (c.y - a.y) - (b.y - a.y) * (c.x - a.x)

\* the two segments are parallel, or one of them is a single point
Parallel(l1, l2) ==
  (l1.end.x - l1.start.x) * (l2.end.y - l2.start.y)
    = (l1.end.y - l1.start.y) * (l2.end.x - l2.start.x)

\* two segments that are not parallel share a point: neither has both ends
\* of the other strictly on one side
SharePoint(l1, l2) ==
  /\ Cross(l1.start, l1.end, l2.start) * Cross(l1.start, l1.end, l2.end) =< 0
  /\ Cross(l2.start, l2.end, l1.start) * Cross(l2.start, l2.end, l1.end) =< 0

\* p lies on the segment l, within the rounding of p to 1/1000: it is in the
\* bounding box of l and no farther than 1/1000 from the line through l
NearSegment(p, l) ==
  /\ Min(l.start.x, l.end.x) =< p.x /\ p.x =< Max(l.start.x, l.end.x)
  /\ Min(l.start.y, l.end.y) =< p.y /\ p.y =< Max(l.start.y, l.end.y)
  /\ Abs(Cross(l.start, l.end, p)) =< distance(l.start, l.end)

\* C22: lineIntersection returns none when the two segments are parallel;
\* whenever it returns a point, that point lies on both segments (both solved
\* parameters are within [0,1]); and whenever two segments that are not
\* parallel share a point, it returns that point.
C22_IntersectionOnBothSegments ==
  lastOp.op = "lineIntersection" =>
    /\ Parallel(lastOp.line1, lastOp.line2) => lastOp.result = <<>>
    /\ lastOp.result # <<>> =>
         /\ NearSegment(lastOp.result[1], lastOp.line1)
         /\ NearSegment(lastOp.result[1], lastOp.line2)
    /\ (~Parallel(lastOp.line1, lastOp.line2) /\ SharePoint(lastOp.line1, lastOp.line2))
         => lastOp.result # <<>>

\* the diagonal from (0,0) to (0.1,0.1) and the segment from (0,0.03) to
\* (0.1,0) cross at (0.02308, 0.02308), inside both
C22_Witness ==
  /\ lastOp.op = "lineIntersection"
  /\ lastOp.line1 = [start |-> Pt(0, 0), end |-> Pt(100, 100)]
  /\ lastOp.line2 = [start |-> Pt(0, 30), end |-> Pt(100, 0)]
  /\ lastOp.result = <<Pt(23, 23)>>

\* ------------------------------------------------ normalizeAngle, by steps

\* a double so large that the spacing of the doubles around it exceeds 4 pi
\* (1e20, say, where the spacing is 16384): the value stands for all of them
HugeAngle == 10^9

\* angle + d in floating point, for |d| = 2 pi: a huge angle absorbs d
AddAngle(a, d) == IF Abs(a) >= HugeAngle THEN a ELSE a + d

\* the arguments of normalizeAngle: multiples of 45 degrees over six turns,
\* angles off the grid, and the huge doubles
NormalizeInputs ==
  {45000 * k : k \in (0 - 24)..24}
    \cup {0 - 540001, 0 - 1, 1, 359999, 360001, 123456}
    \cup {HugeAngle, 0 - HugeAngle}

\* normalizeAngle(a) is entered: angle holds the parameter, pc the loop
InitNormalize ==
  /\ \E a \in NormalizeInputs :
       lastOp = [op |-> "normalizeAngle", input |-> a, angle |-> a, pc |-> "raise"]
  /\ pts = <<>>
  /\ bodies = <<>>
  /\ collisions = <<>>
  /\ traj = NoTrajectory
  /\ ncalls = 0
  /\ difficulty = "medium"
  /\ gameState = NoGameState
  /\ shots = <<>>
  /\ bestShot = NullShot
  /\ game = NoGame
  /\ hook = NoHook

\* one test of a loop condition of normalizeAngle, and the loop's body or the
\* step to the next statement:
\*   while (angle < 0) angle += 2 * Math.PI;
\*   while (angle >= 2 * Math.PI) angle -= 2 * Math.PI;
\*   return angle;
NormalizeIteration ==
  /\ lastOp.op = "normalizeAngle"
  /\ lastOp.pc # "returned"
  /\ lastOp' =
       IF lastOp.pc = "raise"
       THEN IF lastOp.angle < 0
            THEN [lastOp EXCEPT !.angle = AddAngle(@, 2 * PI)]
            ELSE [lastOp EXCEPT !.pc = "lower"]
       ELSE IF lastOp.angle >= 2 * PI
            THEN [lastOp EXCEPT !.angle = AddAngle(@, 0 - 2 * PI)]
            ELSE [lastOp EXCEPT !.pc = "returned"]
  /\ UNCHANGED <<pts, bodies, collisions, traj, ncalls>>
  /\ UNCHANGED aiVars

\* the call runs on: the interpreter takes the next iteration
SpecNormalize ==
  InitNormalize /\ [][NormalizeIteration]_vars /\ WF_vars(NormalizeIteration)

\* C23: for every finite angle a, normalizeAngle(a) terminates and returns a
\* value r with 0 <= r < 2 pi that differs from a by an integer multiple of
\* 2 pi.
C23_NormalizeTerminatesInRange ==
  /\ <>(lastOp.pc = "returned")
  /\ [](lastOp.pc = "returned" =>
          /\ 0 =< lastOp.angle /\ lastOp.angle < 2 * PI
          /\ (lastOp.angle - lastOp.input) % (2 * PI) = 0)

\* ------------------------------------------------------------ friction phase

\* velocities of the sliding body, per component: fast, just above and just
\* below the rest threshold, and zero
FrictionVelocities == {0 - 50000, 0 - 120, 0, 90, 150, 30000}

\* friction coefficients, in [0, 1]
Frictions == {0, 20, 1000}

\* one non-static body in the middle of the board, too far from the walls to
\* reach them
InitFriction ==
  \E vx \in FrictionVelocities, vy \in FrictionVelocities, f \in Frictions :
    LET lits == <<[Body("a", 400000, 300000, vx, vy, 1000, 800, FALSE)
                     EXCEPT !.friction = f]>>
    IN  /\ pts = <<lits[1].position, lits[1].velocity>>
        /\ bodies = AddAll(<<>>, lits, 1)
        /\ collisions = <<>>
        /\ lastOp = [op |-> "new"]
        /\ traj = NoTrajectory
        /\ ncalls = 0
        /\ difficulty = "medium"
        /\ gameState = NoGameState
        /\ shots = <<>>
        /\ bestShot = NullShot
        /\ game = NoGame
        /\ hook = NoHook

SpecFriction == InitFriction /\ [][NextScene]_vars

\* C24: the friction phase of step never reverses a velocity component: for
\* every non-static body, each velocity component after the drag-and-friction
\* phase has the same sign as before it or is zero, and the body's speed
\* after that phase is not larger than before it.
C24_FrictionNeverReverses ==
  [][(lastOp'.op = "step" /\ ncalls' = ncalls + 1) =>
       \A i \in 1..Len(bodies) :
         LET b == bodies[i].body
             v0 == pts[b.velocity]
             v1 == pts'[b.velocity]
         IN  b.isStatic \/
               /\ v1.x = 0 \/ (v1.x > 0 /\ v0.x > 0) \/ (v1.x < 0 /\ v0.x < 0)
               /\ v1.y = 0 \/ (v1.y > 0 /\ v0.y > 0) \/ (v1.y < 0 /\ v0.y < 0)
               /\ Speed(v1) =< Speed(v0)]_vars

\* after two steps the body of friction 1 still slides, left and down the
\* board, slower than one unit a second in x
C24_Witness ==
  /\ lastOp.op = "step" /\ ncalls = 2 /\ Len(bodies) = 1
  /\ bodies[1].body.friction = 1000
  /\ pts[bodies[1].body.velocity].x < 0
  /\ pts[bodies[1].body.velocity].x > 0 - 1000
  /\ pts[bodies[1].body.velocity].y > 0
  /\ pts[bodies[1].body.position] # Pt(400000, 300000)

\* C25: isPathClear handles the zero-length segment (start equal to end) with
\* a defined result: it tests the single point and returns false when a
\* registered body that is not excluded lies within radius + buffer of that
\* point, and true otherwise; it never evaluates an undefined sample point.
C25_ZeroLengthPathTested ==
  (lastOp.op = "isPathClear" /\ lastOp.start = lastOp.end) =>
    /\ lastOp.clear =
         ~\E k \in 1..Len(bodies) :
            /\ bodies[k].body.id \notin lastOp.excludeIds
            /\ DistanceLeq(lastOp.start, pts[bodies[k].body.position],
                           bodies[k].body.radius + lastOp.buffer)
    /\ ~PointNaN(CheckPoint(lastOp.start, lastOp.end, 0,
                            Ceil(distance(lastOp.start, lastOp.end), PathStepSize * Milli)))

\* ---------------------------------------------------------- CarromGameManager

\* the coins of initializeGame: nine white coins of player1, nine black coins
\* of player2 and the queen.  A coin's type and owner never change and are
\* read off its id; the manager's Map `coins` holds, for every id, the
\* fields executeMove writes.
WhiteCoins == {"white_0", "white_1", "white_2", "white_3", "white_4", "white_5",
               "white_6", "white_7", "white_8"}
BlackCoins == {"black_0", "black_1", "black_2", "black_3", "black_4", "black_5",
               "black_6", "black_7", "black_8"}
CoinIds == WhiteCoins \cup BlackCoins \cup {"queen"}

CoinType(id) ==
  IF id \in WhiteCoins THEN "white" ELSE IF id \in BlackCoins THEN "black" ELSE "queen"

CoinOwner(id) ==
  IF id \in WhiteCoins THEN "player1" ELSE IF id \in BlackCoins THEN "player2" ELSE "null"

QueenBonus == 3
FoulPenalty == 0 - 1
MaxTurnsPerPlayer == 50

\* initializeGame(gameMode)
initializeGame ==
  [phase |-> "initial", currentPlayer |-> "player1", turnNumber |-> 1,
   coins |-> [id \in CoinIds |-> [isPocketed |-> FALSE, pocketedBy |-> "null"]],
   queenCaptured |-> FALSE, queenCapturedBy |-> "null",
   score |-> [player1 |-> 0, player2 |-> 0, player1Coins |-> 9, player2Coins |-> 9],
   moves |-> <<>>,
   canShoot |-> TRUE, continueTurn |-> FALSE, shotInProgress |-> FALSE,
   consecutiveFouls |-> [player1 |-> 0, player2 |-> 0],
   aiAssistanceLevel |-> "hints"]

\* Array.includes
Includes(list, x) == \E i \in 1..Len(list) : list[i] = x

\* checkForFouls(coinsHit, coinsPocketed)
checkForFouls(g, coinsHit, coinsPocketed) ==
  \/ Len(coinsHit) = 0
  \/ Includes(coinsPocketed, "striker")
  \/ /\ Len(coinsHit) > 0
     /\ coinsHit[1] \in CoinIds
     /\ CoinOwner(coinsHit[1]) # g.currentPlayer
     /\ CoinType(coinsHit[1]) # "queen"
  \/ Includes(coinsPocketed, "queen") /\ Len(coinsPocketed) = 1

RECURSIVE PocketedScore(_, _, _)
\* calculateMoveScore, the loop over move.coinsPocketed from index i on
PocketedScore(g, coinsPocketed, i) ==
  IF i > Len(coinsPocketed) THEN 0
  ELSE LET coinId == coinsPocketed[i]
           rest == PocketedScore(g, coinsPocketed, i + 1)
       IN  IF coinId = "striker" \/ coinId \notin CoinIds THEN rest
           ELSE IF CoinType(coinId) = "queen"
                THEN (IF Len(coinsPocketed) > 1 THEN QueenBonus ELSE 0) + rest
                ELSE IF CoinOwner(coinId) = g.currentPlayer THEN 1 + rest
                ELSE rest

\* calculateMoveScore(move)
calculateMoveScore(g, move) ==
  PocketedScore(g, move.coinsPocketed, 1) + (IF move.wasFoul THEN FoulPenalty ELSE 0)

RECURSIVE PocketCoins(_, _, _)
\* updateGameStateAfterMove, the loop over move.coinsPocketed from index i on
PocketCoins(g, coinsPocketed, i) ==
  IF i > Len(coinsPocketed) THEN g
  ELSE LET coinId == coinsPocketed[i]
           g1 == [g EXCEPT !.coins[coinId] =
                               [isPocketed |-> TRUE, pocketedBy |-> g.currentPlayer]]
           g2 == IF CoinType(coinId) = "white" /\ CoinOwner(coinId) = "player1"
                 THEN [g1 EXCEPT !.score.player1Coins = @ - 1]
                 ELSE IF CoinType(coinId) = "black" /\ CoinOwner(coinId) = "player2"
                 THEN [g1 EXCEPT !.score.player2Coins = @ - 1]
                 ELSE [g1 EXCEPT !.queenCaptured = TRUE,
                                 !.queenCapturedBy = g.currentPlayer]
       IN  IF coinId \in CoinIds /\ coinId # "striker"
           THEN PocketCoins(g2, coinsPocketed, i + 1)
           ELSE PocketCoins(g, coinsPocketed, i + 1)

\* checkGameEndConditions()
checkGameEndConditions(g) ==
  IF g.score.player1Coins = 0 THEN [g EXCEPT !.phase = "finished"]
  ELSE IF g.score.player2Coins = 0 THEN [g EXCEPT !.phase = "finished"]
  ELSE IF g.turnNumber >= MaxTurnsPerPlayer * 2 THEN [g EXCEPT !.phase = "finished"]
  ELSE IF g.queenCaptured /\ g.phase = "initial" THEN [g EXCEPT !.phase = "queen-captured"]
  ELSE IF g.score.player1Coins =< 3 \/ g.score.player2Coins =< 3
       THEN [g EXCEPT !.phase = "endgame"]
  ELSE IF g.phase = "initial" /\ g.turnNumber > 2 THEN [g EXCEPT !.phase = "playing"]
  ELSE g

\* switchPlayer() without the change of currentPlayer
SwitchKeepsPlayer(g) ==
  [g EXCEPT !.canShoot = TRUE, !.continueTurn = FALSE]

\* switchPlayer()
switchPlayer(g) ==
  [g EXCEPT !.currentPlayer = IF @ = "player1" THEN "player2" ELSE "player1",
            !.canShoot = TRUE,
            !.continueTurn = FALSE]

\* updateGameStateAfterMove(move)
updateGameStateAfterMove(g, move) ==
  LET scored == [g EXCEPT !.score[g.currentPlayer] = @ + move.score]
      pocketed == PocketCoins(scored, move.coinsPocketed, 1)
      fouls == IF move.wasFoul
               THEN [pocketed EXCEPT !.consecutiveFouls[g.currentPlayer] = @ + 1,
                                     !.continueTurn = FALSE]
               ELSE [pocketed EXCEPT !.consecutiveFouls[g.currentPlayer] = 0,
                                     !.continueTurn =
                                        /\ Len(move.coinsPocketed) > 0
                                        /\ ~Includes(move.coinsPocketed, "striker")]
      ended == checkGameEndConditions(fouls)
      switched == IF ~ended.continueTurn /\ ended.phase # "finished"
                  THEN switchPlayer(ended) ELSE ended
  IN  [switched EXCEPT !.turnNumber = @ + 1]

\* executeMove(strikerPosition, power, angle, coinsHit, coinsPocketed): the
\* game state it leaves (the move it returns is the last of moves)
executeMove(g, strikerPosition, power, a, coinsHit, coinsPocketed) ==
  LET move0 == [player |-> g.currentPlayer, strikerPosition |-> strikerPosition,
                power |-> power, angle |-> a, coinsHit |-> coinsHit,
                coinsPocketed |-> coinsPocketed,
                wasQueenPocketed |-> Includes(coinsPocketed, "queen"),
                wasFoul |-> checkForFouls(g, coinsHit, coinsPocketed),
                score |-> 0]
      move == [move0 EXCEPT !.score = calculateMoveScore(g, move0)]
      g1 == updateGameStateAfterMove(g, move)
  IN  [g1 EXCEPT !.moves = Append(@, move)]

\* canPlayerShoot()
canPlayerShoot(g) == g.canShoot /\ ~g.shotInProgress /\ g.phase # "finished"

\* A game session: a manager is constructed, moves are executed on it and it
\* is reset.

MaxMoves == 3

\* the coinsHit lists of the moves: nothing hit, an own coin first, the
\* opponent's coin first
HitLists == {<<>>, <<"white_0">>, <<"black_0", "white_0">>}

\* the coinsPocketed lists of the moves: nothing, a white coin, the same coin
\* twice, all white coins, the queen alone, the striker
PocketLists ==
  { <<>>, <<"white_0">>, <<"white_0", "white_0">>,
    <<"white_0", "white_1", "white_2", "white_3", "white_4", "white_5", "white_6",
      "white_7", "white_8">>,
    <<"queen">>, <<"black_0", "striker">> }

InitGame ==
  /\ game = initializeGame
  /\ hook = NoHook
  /\ pts = <<>>
  /\ bodies = <<>>
  /\ collisions = <<>>
  /\ lastOp = [op |-> "new"]
  /\ traj = NoTrajectory
  /\ ncalls = 0
  /\ difficulty = "medium"
  /\ gameState = NoGameState
  /\ shots = <<>>
  /\ bestShot = NullShot

ExecuteMove(coinsHit, coinsPocketed) ==
  /\ ncalls < MaxMoves
  /\ game' = executeMove(game, Pt(400000, 550000), 50 * Milli, 0, coinsHit, coinsPocketed)
  /\ lastOp' = [op |-> "executeMove", coinsHit |-> coinsHit, coinsPocketed |-> coinsPocketed]
  /\ ncalls' = ncalls + 1
  /\ UNCHANGED <<pts, bodies, collisions, traj, difficulty, gameState, shots, bestShot, hook>>

\* resetGame()
ResetGame ==
  /\ ncalls < MaxMoves
  /\ game' = initializeGame
  /\ lastOp' = [op |-> "resetGame"]
  /\ ncalls' = ncalls + 1
  /\ UNCHANGED <<pts, bodies, collisions, traj, difficulty, gameState, shots, bestShot, hook>>

NextGame ==
  \/ \E coinsHit \in HitLists, coinsPocketed \in PocketLists :
       ExecuteMove(coinsHit, coinsPocketed)
  \/ ResetGame

SpecGame == InitGame /\ [][NextGame]_vars

\* C28: the 'finished' phase is absorbing: once the manager's phase is
\* 'finished', every further executeMove (with any coinsHit and coinsPocketed
\* lists) leaves the phase 'finished' and canPlayerShoot() false, until
\* resetGame is called.
C28_FinishedIsAbsorbing ==
  [][(game.phase = "finished" /\ lastOp'.op = "executeMove" /\ ncalls' = ncalls + 1) =>
       (game'.phase = "finished" /\ ~canPlayerShoot(game'))]_vars

\* C29: after any sequence of executeMove calls, score.player1Coins is the
\* number of player1's coins with isPocketed = false and score.player2Coins
\* the number of player2's coins with isPocketed = false; both stay within
\* 0..9, also when a coin id appears in coinsPocketed of more than one move or
\* more than once in one move.
C29_CoinCountsMatchBoard ==
  game.phase # "none" =>
    /\ game.score.player1Coins
         = Cardinality({id \in WhiteCoins : ~game.coins[id].isPocketed})
    /\ game.score.player2Coins
         = Cardinality({id \in BlackCoins : ~game.coins[id].isPocketed})
    /\ game.score.player1Coins \in 0..9
    /\ game.score.player2Coins \in 0..9

\* the move the last executeMove recorded
LastMove(g) == g.moves[Len(g.moves)]

OtherPlayer(p) == IF p = "player1" THEN "player2" ELSE "player1"

\* C30: each executeMove increases turnNumber by exactly 1 and appends exactly
\* one move to moves, so moves.length = turnNumber - 1 at all times; when the
\* game is not finished after the move, currentPlayer stays the same exactly
\* when the move was not a foul and pocketed at least one piece, and switches
\* to the other player otherwise; a foul always ends the turn.
C30_TurnOrder ==
  /\ [](game.phase # "none" => Len(game.moves) = game.turnNumber - 1)
  /\ [][(lastOp'.op = "executeMove" /\ ncalls' = ncalls + 1) =>
          /\ game'.turnNumber = game.turnNumber + 1
          /\ Len(game'.moves) = Len(game.moves) + 1
          /\ SubSeq(game'.moves, 1, Len(game.moves)) = game.moves
          /\ LastMove(game').player = game.currentPlayer
          /\ game'.phase # "finished" =>
               IF ~LastMove(game').wasFoul /\ Len(LastMove(game').coinsPocketed) > 0
               THEN game'.currentPlayer = game.currentPlayer
               ELSE game'.currentPlayer = OtherPlayer(game.currentPlayer)
          /\ LastMove(game').wasFoul => ~game'.continueTurn]_vars

\* player1 pockets an own coin without a foul and keeps the turn, then fouls
\* and the turn passes to player2
C30_Witness ==
  /\ game.phase \notin {"none", "finished"}
  /\ Len(game.moves) = 2
  /\ ~game.moves[1].wasFoul /\ Len(game.moves[1].coinsPocketed) > 0
  /\ game.moves[2].player = "player1" /\ game.moves[2].wasFoul
  /\ game.currentPlayer = "player2"
  /\ game.turnNumber = 3

\* --------------------------------------------------------------- useCarromGame

\* getInitialCoinPosition(type, index) for the coins initializeGame creates:
\* white_i and black_i both get positions[i]
getInitialCoinPosition(id) ==
  LET spacing == 17000
      cx == 400000
      cy == 300000
      positions == << Pt(cx - spacing, cy), Pt(cx + spacing, cy), Pt(cx, cy - spacing),
                      Pt(cx, cy + spacing), Pt(cx - spacing, cy - spacing),
                      Pt(cx + spacing, cy - spacing), Pt(cx - spacing, cy + spacing),
                      Pt(cx + spacing, cy + spacing), Pt(cx - 2 * spacing, cy) >>
      index == CHOOSE i \in 0..8 : id \in {<<"white_0", "white_1", "white_2", "white_3",
                                             "white_4", "white_5", "white_6", "white_7",
                                             "white_8">>[i + 1],
                                           <<"black_0", "black_1", "black_2", "black_3",
                                             "black_4", "black_5", "black_6", "black_7",
                                             "black_8">>[i + 1]}
  IN  IF id = "queen" THEN Pt(cx, cy) ELSE positions[index + 1]

\* the keys of the Map gameState.coins in insertion order
CoinOrder ==
  << "white_0", "white_1", "white_2", "white_3", "white_4", "white_5", "white_6",
     "white_7", "white_8", "black_0", "black_1", "black_2", "black_3", "black_4",
     "black_5", "black_6", "black_7", "black_8", "queen" >>

\* the bodies the hook's first effect registers: every coin of the new game,
\* then the striker.  addBody keeps the coin's own position and velocity
\* objects, so a coin's position is read through its body.
GameBodies ==
  [i \in 1..20 |->
     IF i = 20 THEN Striker(0, 0)
     ELSE IF CoinOrder[i] = "queen"
          THEN [Coin("queen", 400000, 300000) EXCEPT !.radius = 9000, !.mass = 1200]
          ELSE Coin(CoinOrder[i], getInitialCoinPosition(CoinOrder[i]).x,
                    getInitialCoinPosition(CoinOrder[i]).y)]

\* the values a startPhysicsLoop (with its animate and the handleShotComplete
\* animate calls) closes over: those of the render that created it
LoopClosure(hk) ==
  [shotInProgress |-> hk.shotInProgress, strikerPosition |-> hk.strikerPosition,
   shotPower |-> hk.shotPower, shotAngle |-> hk.shotAngle]

\* the values an executeShot closes over
ShotClosure(hk) ==
  [shotInProgress |-> hk.shotInProgress, isAiming |-> hk.isAiming,
   shotAngle |-> hk.shotAngle, shotPower |-> hk.shotPower,
   strikerPosition |-> hk.strikerPosition, startPhysicsLoop |-> hk.startPhysicsLoop]

\* the render after a handler: useCallback makes a new startPhysicsLoop when
\* its dependency shotInProgress has changed
Render(old, new) ==
  IF new.shotInProgress # old.shotInProgress
  THEN [new EXCEPT !.startPhysicsLoop = LoopClosure(new)]
  ELSE new

\* executeShot: the velocity given to the striker
ShotVelocity(power, a) ==
  LET cs == CosSin(a)
  IN  Pt(Div(cs[1] * Div(power, 2), Milli), Div(cs[2] * Div(power, 2), Milli))

\* startPhysicsLoop(), of the closure loop: requests the first frame unless
\* one is pending.  Time is counted in the frames' deltaTime, so that
\* performance.now() is the time of the last frame.
startPhysicsLoop(hk, loop) ==
  IF hk.animationFrameRef = "null"
  THEN [hk EXCEPT !.animationFrameRef = "pending", !.animate = loop]
  ELSE hk

\* executeShot(), of the closure c: the heap, the registry and the hook state
\* it leaves, and whether it launched
executeShot(h, reg, g, hk, c) ==
  IF ~canPlayerShoot(g) \/ c.shotInProgress \/ ~c.isAiming
  THEN [heap |-> h, bodies |-> reg, hook |-> hk, launched |-> FALSE, velocity |-> Pt(0, 0)]
  ELSE LET velocity == ShotVelocity(c.shotPower, c.shotAngle)
           h1 == Append(h, velocity)
           reg1 == updateBody(reg, "striker",
                              [position |-> c.strikerPosition, velocity |-> Len(h1)])
           hk1 == [hk EXCEPT !.shotInProgress = TRUE, !.isAiming = FALSE]
       IN  [heap |-> h1, bodies |-> reg1, hook |-> startPhysicsLoop(hk1, c.startPhysicsLoop),
            launched |-> TRUE, velocity |-> velocity]

\* the pockets handleShotComplete tests
HookPockets ==
  {Pt(30000, 30000), Pt(BoardWidth - 30000, 30000), Pt(30000, BoardHeight - 30000),
   Pt(BoardWidth - 30000, BoardHeight - 30000)}

\* handleShotComplete: the ids it collects in coinsPocketed
CoinsInPockets(h, reg, g) ==
  SelectSeq(CoinOrder,
            LAMBDA id : /\ ~g.coins[id].isPocketed
                        /\ KeyIndex(reg, id) # 0
                        /\ \E pocket \in HookPockets :
                             DistanceLeq(h[reg[KeyIndex(reg, id)].body.position], pocket,
                                         25000))

\* handleShotComplete(coinsHit), of the closure c: the heap, the game state
\* and the hook state it leaves
handleShotComplete(h, reg, g, hk, c, coinsHit) ==
  [heap |-> Append(h, Pt(BoardWidth \div 2, BoardHeight - 50000)),
   game |-> executeMove(g, h[c.strikerPosition], c.shotPower, c.shotAngle, coinsHit,
                        CoinsInPockets(h, reg, g)),
   hook |-> [hk EXCEPT !.strikerPosition = Len(h) + 1, !.shotPower = 50 * Milli]]

\* A session with the hook: the component is mounted with a new game, the AI
\* assistance is off, and the user and the browser call the hook's handlers.

MaxHookCalls == 3

\* the time between two animation frames, in ms: none, and thirty seconds
\* (the frames of a page that was in the background)
FrameTimes == {0, 30000}

\* the shot options given to executeAIShot
AIShots ==
  { [strikerPosition |-> Pt(350000, 550000), angle |-> -90000, power |-> 30 * Milli] }

InitHook ==
  /\ game = [initializeGame EXCEPT !.aiAssistanceLevel = "off"]
  /\ pts = [a \in 1..41 |->
              IF a = 41 THEN Pt(BoardWidth \div 2, BoardHeight - 50000)
              ELSE IF a % 2 = 1 THEN GameBodies[(a + 1) \div 2].position
              ELSE GameBodies[a \div 2].velocity]
  /\ bodies = AddAll(<<>>, GameBodies, 1)
  /\ hook = [mounted |-> TRUE, strikerPosition |-> 41, shotPower |-> 50 * Milli,
             shotAngle |-> 0, isAiming |-> FALSE, shotInProgress |-> FALSE,
             animationFrameRef |-> "null", lastUpdateTime |-> 0,
             animate |-> [shotInProgress |-> FALSE, strikerPosition |-> 41,
                          shotPower |-> 50 * Milli, shotAngle |-> 0],
             startPhysicsLoop |-> [shotInProgress |-> FALSE, strikerPosition |-> 41,
                                   shotPower |-> 50 * Milli, shotAngle |-> 0],
             timers |-> <<>>]
  /\ collisions = <<>>
  /\ lastOp = [op |-> "new"]
  /\ traj = NoTrajectory
  /\ ncalls = 0
  /\ difficulty = "medium"
  /\ gameState = NoGameState
  /\ shots = <<>>
  /\ bestShot = NullShot

\* setStrikerPosition(position)
SetStrikerPosition(position) ==
  /\ ncalls < MaxHookCalls
  /\ IF ~hook.shotInProgress /\ canPlayerShoot(game)
     THEN /\ pts' = Append(pts, position)
          /\ bodies' = updateBody(bodies, "striker", [position |-> Len(pts) + 1])
          /\ hook' = [hook EXCEPT !.strikerPosition = Len(pts) + 1]
     ELSE UNCHANGED <<pts, bodies, hook>>
  /\ lastOp' = [op |-> "setStrikerPosition", position |-> position]
  /\ ncalls' = ncalls + 1
  /\ UNCHANGED <<collisions, traj, difficulty, gameState, shots, bestShot, game>>

\* setShotPower(power)
SetShotPower(power) ==
  /\ ncalls < MaxHookCalls
  /\ hook' = [hook EXCEPT !.shotPower = power]
  /\ lastOp' = [op |-> "setShotPower", power |-> power]
  /\ ncalls' = ncalls + 1
  /\ UNCHANGED <<pts, bodies, collisions, traj, difficulty, gameState, shots, bestShot, game>>

\* startAiming()
StartAiming ==
  /\ ncalls < MaxHookCalls
  /\ hook' = IF canPlayerShoot(game) /\ ~hook.shotInProgress
             THEN [hook EXCEPT !.isAiming = TRUE] ELSE hook
  /\ lastOp' = [op |-> "startAiming"]
  /\ ncalls' = ncalls + 1
  /\ UNCHANGED <<pts, bodies, collisions, traj, difficulty, gameState, shots, bestShot, game>>

\* the state an executeShot call leaves, r being what executeShot returned
Launched(r) ==
  /\ pts' = r.heap
  /\ bodies' = r.bodies
  /\ hook' = Render(hook, r.hook)

\* executeShot(), called by the user: the closure of the last render
ExecuteShot ==
  /\ ncalls < MaxHookCalls
  /\ lastOp' = [op |-> "executeShot"]
  /\ Launched(executeShot(pts, bodies, game, hook, ShotClosure(hook)))
  /\ ncalls' = ncalls + 1
  /\ UNCHANGED <<collisions, traj, difficulty, gameState, shots, bestShot, game>>

\* executeAIShot(shotOption): the shot parameters are set and a timer is
\* started whose callback calls the executeShot of this render
ExecuteAIShot(shot) ==
  /\ ncalls < MaxHookCalls
  /\ IF ~canPlayerShoot(game) \/ hook.shotInProgress
     THEN /\ UNCHANGED <<pts, bodies, hook>>
          /\ lastOp' = [op |-> "executeAIShot", shot |-> shot, accepted |-> FALSE]
     ELSE /\ pts' = Append(pts, shot.strikerPosition)
          /\ bodies' = updateBody(bodies, "striker", [position |-> Len(pts) + 1])
          /\ hook' = [hook EXCEPT !.strikerPosition = Len(pts) + 1,
                                  !.shotPower = shot.power,
                                  !.shotAngle = shot.angle,
                                  !.timers = Append(@, ShotClosure(hook))]
          /\ lastOp' = [op |-> "executeAIShot", shot |-> shot, accepted |-> TRUE]
  /\ ncalls' = ncalls + 1
  /\ UNCHANGED <<collisions, traj, difficulty, gameState, shots, bestShot, game>>

\* the 100 ms timer of executeAIShot fires: () => { executeShot(); }
Timeout ==
  /\ hook.mounted
  /\ hook.timers # <<>>
  /\ lastOp' = [op |-> "timeout", pending |-> Len(hook.timers) - 1]
  /\ Launched(executeShot(pts, bodies, game, [hook EXCEPT !.timers = Tail(@)],
                          Head(hook.timers)))
  /\ UNCHANGED <<collisions, traj, ncalls, difficulty, gameState, shots, bestShot, game>>

\* animate, after its call of step returned r: the shot is completed when the
\* closure's shotInProgress holds and nothing moves, and the next frame is
\* requested when the closure's shotInProgress holds or something moves
AfterStep(r, reg, g, hk, c, stepped) ==
  LET moving == hasMovingBodies(r.heap, reg)
      complete == stepped /\ c.shotInProgress /\ ~moving
      ref == IF c.shotInProgress \/ moving THEN "pending" ELSE "null"
  IN  IF complete
      THEN LET done == handleShotComplete(r.heap, reg, g,
                                          [hk EXCEPT !.shotInProgress = FALSE], c,
                                          [i \in 1..Len(r.collisions) |-> r.collisions[i].idA])
           IN  [heap |-> done.heap, collisions |-> r.collisions, game |-> done.game,
                hook |-> [done.hook EXCEPT !.animationFrameRef = ref], complete |-> TRUE]
      ELSE [heap |-> r.heap, collisions |-> r.collisions, game |-> g,
            hook |-> [hk EXCEPT !.animationFrameRef = ref], complete |-> FALSE]

\* animate(currentTime), of the closure c, deltaTime ms after the frame before
animate(h, reg, cols, g, hk, c, deltaTime) ==
  IF deltaTime > 0
  THEN AfterStep(step(h, reg, deltaTime), reg, g, hk, c, TRUE)
  ELSE AfterStep([heap |-> h, collisions |-> cols], reg, g, hk, c, FALSE)

\* the state a frame leaves, r being what animate returned
Animated(r) ==
  /\ pts' = r.heap
  /\ collisions' = r.collisions
  /\ game' = r.game
  /\ hook' = Render(hook, r.hook)

\* the pending animation frame is run
AnimationFrame(deltaTime) ==
  /\ hook.mounted
  /\ hook.animationFrameRef = "pending"
  /\ lastOp' = [op |-> "animate", deltaTime |-> deltaTime,
                 currentTime |-> hook.lastUpdateTime + deltaTime]
  /\ Animated(animate(pts, bodies, collisions, game,
                      [hook EXCEPT !.lastUpdateTime = @ + deltaTime], hook.animate, deltaTime))
  /\ UNCHANGED <<bodies, traj, ncalls, difficulty, gameState, shots, bestShot>>

NextHook ==
  \/ SetStrikerPosition(Pt(300000, 550000))
  \/ SetShotPower(2 * Milli)
  \/ StartAiming
  \/ ExecuteShot
  \/ \E shot \in AIShots : ExecuteAIShot(shot)
  \/ Timeout
  \/ \E deltaTime \in FrameTimes : AnimationFrame(deltaTime)

\* a started timer fires: the step of Timeout, told by the operation it records
TimerFires ==
  /\ hook.mounted
  /\ hook.timers # <<>>
  /\ lastOp' = [op |-> "timeout", pending |-> Len(hook.timers) - 1]

\* the browser runs a requested animation frame with time having passed: the
\* step of AnimationFrame, told by the operation it records
FrameRuns ==
  /\ hook.mounted
  /\ hook.animationFrameRef = "pending"
  /\ \E deltaTime \in FrameTimes \ {0} :
       lastOp' = [op |-> "animate", deltaTime |-> deltaTime,
                  currentTime |-> hook.lastUpdateTime + deltaTime]

\* timers fire and requested animation frames are run
SpecHook ==
  InitHook /\ [][NextHook]_vars /\ WF_lastOp(TimerFires) /\ WF_lastOp(FrameRuns)

\* the striker's velocity in the engine
StrikerVelocity == pts[bodies[KeyIndex(bodies, "striker")].body.velocity]

\* C26: every launched shot eventually completes: after executeShot has set
\* shotInProgress and started the physics loop, once no non-static body is
\* moving the loop calls handleShotComplete exactly once, so that executeMove
\* records the move, shotInProgress returns to false and the animation loop
\* stops.
C26_LaunchedShotCompletes ==
  /\ \A n \in 0..MaxHookCalls :
       (hook.mounted /\ hook.shotInProgress /\ Len(game.moves) = n)
         ~> (~hook.shotInProgress /\ Len(game.moves) = n + 1)
  /\ (hook.mounted /\ hook.shotInProgress) ~> (hook.animationFrameRef = "null")

\* C27: executeAIShot called with a shot option while the player can shoot
\* and no shot is in progress eventually launches that shot: when its timer
\* has fired, the striker has received the velocity derived from the shot's
\* angle and power and shotInProgress is true.
C27_AIShotIsLaunched ==
  \A shot \in AIShots :
    (lastOp = [op |-> "executeAIShot", shot |-> shot, accepted |-> TRUE])
      ~> (/\ lastOp.op = "timeout"
          /\ StrikerVelocity = ShotVelocity(shot.power, shot.angle)
          /\ hook.shotInProgress)

=============================================================================
